---- MODULE Spec2Model ----
(***************************************************************************)
(* A model of the pomodoro backend: the relational store (tasks,           *)
(* pomodoro_sessions, user_settings, notes), the completeSession           *)
(* transaction, the task, settings and note accessors and the              *)
(* getStatistics handler.                                                  *)
(*                                                                         *)
(* Time is counted in ticks, TicksPerDay ticks to a calendar day; every    *)
(* clock (the database's NOW() and the server's new Date()) reads the one  *)
(* variable clock, and calendar days are taken in one time zone (UTC).     *)
(***************************************************************************)
EXTENDS Integers, Sequences, FiniteSets, TLC

\* ------------------------------------------------------------------ bounds
MaxCalls == 2
MaxTasks == 2
TicksPerDay == 2
StartDay == 400
MaxRows == 5
MaxAddRows == 3
MaxTicks == 2
MaxCompleted == 2

\* the time at the start: the second tick of day StartDay
StartClock == StartDay * TicksPerDay + 1

\* --------------------------------------------------------- program constants
\* the trailing window of the daily average, in days
AvgWindowDays == 30
\* the trailing window of the streak, in days
StreakWindowDays == 365
\* DEFAULT of tasks.estimated_pomodoros / completed_pomodoros
DefaultCompletedPomodoros == 0

\* taskId?: number -- the request carries no taskId
Undefined == -1
\* a NULL column (task_id, description); ids of a BIGSERIAL start at 1
Null == 0

SessionTypes == {"work", "short_break", "long_break"}
BreakTypes == {"short_break", "long_break"}

Calls == 1..MaxCalls
TaskIds == 1..MaxTasks
\* getStatistics is called twice
StatCalls == {1, 2}

VARIABLES
  clock,       \* the current time, in ticks
  tasks,       \* table tasks: committed rows, id -> row
  taskSeq,     \* the BIGSERIAL sequence of tasks.id
  sessions,    \* table pomodoro_sessions: the set of committed rows
  sessionSeq,  \* the BIGSERIAL sequence of pomodoro_sessions.id
  call,        \* the completeSession calls: call[c] is one request's progress
  stat,        \* the getStatistics calls: stat[g] is one request's progress
  settings,    \* table user_settings: committed rows, id -> row
  settingsSeq, \* the BIGSERIAL sequence of user_settings.id
  sget,        \* the getSettings calls: sget[g] is one request's progress
  notes,       \* table notes: committed rows, id -> row
  noteSeq,     \* the BIGSERIAL sequence of notes.id
  reply,       \* the last response of updateTask, listTasks or listNotes
  timer        \* the Timer component of the client: its React state

\* the variables of the settings and of the notes
settingsVars == <<settings, settingsSeq, sget>>
noteVars == <<notes, noteSeq>>

vars == <<clock, tasks, taskSeq, sessions, sessionSeq, call, stat,
          settingsVars, noteVars, reply, timer>>

\* ------------------------------------------------------------- helpers
\* JavaScript truthiness of an optional number: undefined and 0 are falsy
Truthy(x) == x # Undefined /\ x # 0

\* x || null
OrNull(x) == IF Truthy(x) THEN x ELSE Null

\* an optional string that is absent, and a NULL text column
UndefinedStr == "<undefined>"
NullStr == "<null>"

\* s || null for a string: undefined and the empty string are falsy
StrOrNull(x) == IF x = UndefinedStr \/ x = "" THEN NullStr ELSE x

\* DATE(ts): the calendar day of a timestamp
DateOf(ts) == ts \div TicksPerDay

NoRequest == [taskId |-> Undefined, sessionType |-> "", durationMinutes |-> 0]
NoRow == [id |-> 0, taskId |-> Null, sessionType |-> "", durationMinutes |-> 0,
          completedAt |-> 0]
\* no pending write of tasks.completed_pomodoros in the transaction
NoWrite == -1

\* pc: idle, begun (the transaction is open), inserted, updated, failed (in
\* the catch block, before the rollback), done. startedAt is the time the
\* transaction began.
IdleCall == [pc |-> "idle", req |-> NoRequest, startedAt |-> 0, row |-> NoRow,
             taskWrite |-> NoWrite, committed |-> FALSE, err |-> "",
             outcome |-> "none"]

\* --------------------------------------------------------- completeSession
\* The calls are taken in the order of their slots: which slot serves a
\* request is arbitrary.
CanBegin(c) == call[c].pc = "idle" /\ \A d \in Calls : d < c => call[d].pc # "idle"

\* (mutant) task_id is a plain column, with no foreign key
InsertAcceptedNoForeignKey(r) == r.sessionType \in SessionTypes

\* (mutant) the table has no CHECK on session_type
InsertAcceptedUnchecked(r) ==
  OrNull(r.taskId) # Null => OrNull(r.taskId) \in DOMAIN tasks

\* the constraints of pomodoro_sessions an INSERT must meet: the foreign key
\* on task_id and the CHECK on session_type
InsertAccepted(r) ==
  /\ OrNull(r.taskId) # Null => OrNull(r.taskId) \in DOMAIN tasks
  /\ r.sessionType \in SessionTypes

\* await pomoDB.begin(): the transaction is open; NOW() is, in every statement
\* of the transaction, the time of its start. The handler is back in the
\* event loop before its INSERT is sent.
Begins(c, r) ==
  /\ call[c].pc = "idle"
  /\ call' = [call EXCEPT ![c] = [IdleCall EXCEPT !.pc = "begun", !.req = r,
                                                  !.startedAt = clock]]
  /\ UNCHANGED <<clock, tasks, taskSeq, sessions, sessionSeq, stat, settingsVars, noteVars, reply, timer>>

\* a request of any client, taken by the next slot
BeginCall(c, r) == CanBegin(c) /\ Begins(c, r)

\* a statement or the commit has thrown: the handler is in its catch block,
\* the transaction is still open and keeps its locks
Failed(c, error) == [call[c] EXCEPT !.pc = "failed", !.err = error]

\* catch (error) { await tx.rollback(); throw error; }: the transaction's
\* writes are discarded, its locks released, and the handler rejects with the
\* error caught. row stays what the INSERT returned to the handler.
RolledBack(c) ==
  [call[c] EXCEPT !.pc = "done", !.taskWrite = NoWrite, !.outcome = "thrown"]

\* await tx.rollback(); throw error
Rollback(c) ==
  /\ call[c].pc = "failed"
  /\ call' = [call EXCEPT ![c] = RolledBack(c)]
  /\ UNCHANGED <<clock, tasks, taskSeq, sessions, sessionSeq, stat, settingsVars, noteVars, reply, timer>>

\* (mutant) the INSERT runs on the pool, outside the transaction: the row is
\* committed at once
InsertSessionOutsideTx(c) ==
  /\ call[c].pc = "begun"
  /\ sessionSeq' = sessionSeq + 1
  /\ LET r == call[c].req
         row == [id |-> sessionSeq + 1, taskId |-> OrNull(r.taskId),
                 sessionType |-> r.sessionType,
                 durationMinutes |-> r.durationMinutes,
                 completedAt |-> call[c].startedAt]
     IN IF InsertAccepted(r)
        THEN /\ call' = [call EXCEPT ![c].pc = "inserted", ![c].row = row]
             /\ sessions' = sessions \cup {row}
        ELSE /\ call' = [call EXCEPT ![c] = Failed(c, "insert")]
             /\ sessions' = sessions
  /\ UNCHANGED <<clock, tasks, taskSeq, stat, settingsVars, noteVars, reply, timer>>

\* INSERT INTO pomodoro_sessions ... RETURNING * inside the transaction.
\* completed_at defaults to NOW(), the transaction's start. The sequence is
\* advanced whether or not the row is accepted. An accepted row with a
\* task_id holds a key-share lock on the task until the transaction ends; a
\* rejected one throws into the catch block.
InsertSession(c) ==
  /\ call[c].pc = "begun"
  /\ sessionSeq' = sessionSeq + 1
  /\ LET r == call[c].req IN
       IF InsertAccepted(r)
       THEN call' = [call EXCEPT ![c].pc = "inserted",
                       ![c].row = [id |-> sessionSeq + 1,
                                   taskId |-> OrNull(r.taskId),
                                   sessionType |-> r.sessionType,
                                   durationMinutes |-> r.durationMinutes,
                                   completedAt |-> call[c].startedAt]]
       ELSE call' = [call EXCEPT ![c] = Failed(c, "insert")]
  /\ UNCHANGED <<clock, tasks, taskSeq, sessions, stat, settingsVars, noteVars, reply, timer>>

\* (mutant) the increment is applied to a session of any type
ShouldIncrementAnyType(r) == Truthy(r.taskId)

\* if (req.sessionType === 'work' && req.taskId)
ShouldIncrement(r) == r.sessionType = "work" /\ Truthy(r.taskId)

\* (mutant) the UPDATE does not wait for the row's lock
RowNeverLocked(c, t) == FALSE

\* another open transaction holds an uncommitted UPDATE of task t: the row is
\* locked and this UPDATE waits for that transaction to end
RowLocked(c, t) ==
  \E d \in Calls : d # c /\ call[d].pc \in {"updated", "failed"}
                         /\ call[d].taskWrite # NoWrite /\ call[d].req.taskId = t

\* UPDATE tasks SET completed_pomodoros = completed_pomodoros + 1 WHERE id = ..:
\* the new row version is computed from the current one under the row lock and
\* becomes visible at commit. A call that is not a work session with a task
\* goes on to the commit.
IncrementTask(c) ==
  /\ call[c].pc = "inserted"
  /\ LET r == call[c].req IN
       IF ShouldIncrement(r) /\ r.taskId \in DOMAIN tasks
       THEN /\ ~RowLocked(c, r.taskId)
            /\ call' = [call EXCEPT ![c].pc = "updated",
                          ![c].taskWrite = tasks[r.taskId].completedPomodoros + 1]
       ELSE call' = [call EXCEPT ![c].pc = "updated"]
  /\ UNCHANGED <<clock, tasks, taskSeq, sessions, sessionSeq, stat, settingsVars, noteVars, reply, timer>>

\* the UPDATE statement fails at the store: the handler enters its catch block
IncrementFails(c) ==
  /\ call[c].pc = "inserted"
  /\ ShouldIncrement(call[c].req)
  /\ call' = [call EXCEPT ![c] = Failed(c, "update")]
  /\ UNCHANGED <<clock, tasks, taskSeq, sessions, sessionSeq, stat, settingsVars, noteVars, reply, timer>>

\* (mutant) the commit loses the task's new version
WithTaskWriteLost(c) == tasks

\* (mutant) the commit marks the task completed once its count reaches the
\* estimate
WithTaskWriteCompleting(c) ==
  IF call[c].taskWrite # NoWrite /\ call[c].req.taskId \in DOMAIN tasks
  THEN [tasks EXCEPT ![call[c].req.taskId].completedPomodoros = call[c].taskWrite,
                     ![call[c].req.taskId].updatedAt = call[c].row.completedAt,
                     ![call[c].req.taskId].isCompleted =
                        \/ @
                        \/ call[c].taskWrite >= tasks[call[c].req.taskId].estimatedPomodoros]
  ELSE tasks

\* the tasks table with the transaction's pending write applied
WithTaskWrite(c) ==
  IF call[c].taskWrite # NoWrite /\ call[c].req.taskId \in DOMAIN tasks
  THEN [tasks EXCEPT ![call[c].req.taskId].completedPomodoros = call[c].taskWrite,
                     ![call[c].req.taskId].updatedAt = call[c].row.completedAt]
  ELSE tasks

\* What the handler gives its caller once the callback of begin().then(..) has
\* committed: the callback's return value (the session) is the value of the
\* awaited promise, which the handler drops; it goes on to the statement that
\* follows, throw new Error("Transaction failed").
OutcomeAfterCommit == "thrown"

\* await tx.commit(): the inserted row and the task's new version become
\* visible; then the handler completes
CommitCall(c) ==
  /\ call[c].pc = "updated"
  /\ sessions' = sessions \cup {call[c].row}
  /\ tasks' = WithTaskWrite(c)
  /\ call' = [call EXCEPT ![c].pc = "done", ![c].committed = TRUE,
                          ![c].taskWrite = NoWrite,
                          ![c].err = IF OutcomeAfterCommit = "thrown"
                                     THEN "Transaction failed" ELSE "",
                          ![c].outcome = OutcomeAfterCommit]
  /\ UNCHANGED <<clock, taskSeq, sessionSeq, stat, settingsVars, noteVars, reply, timer>>

\* tx.commit() fails at the store: nothing becomes visible, the handler
\* enters its catch block
CommitFails(c) ==
  /\ call[c].pc = "updated"
  /\ call' = [call EXCEPT ![c] = Failed(c, "commit")]
  /\ UNCHANGED <<clock, tasks, taskSeq, sessions, sessionSeq, stat, settingsVars, noteVars, reply, timer>>

\* ------------------------------------------------------------ the tasks
\* INSERT INTO tasks (title, description, estimated_pomodoros): the other
\* columns take their defaults
CreateTask(title, description, estimatedPomodoros) ==
  /\ taskSeq < MaxTasks
  /\ taskSeq' = taskSeq + 1
  /\ tasks' = [t \in DOMAIN tasks \cup {taskSeq + 1} |->
                 IF t \in DOMAIN tasks THEN tasks[t]
                 ELSE [title |-> title, description |-> StrOrNull(description),
                       estimatedPomodoros |-> estimatedPomodoros,
                       completedPomodoros |-> DefaultCompletedPomodoros,
                       isCompleted |-> FALSE,
                       createdAt |-> clock, updatedAt |-> clock]]
  /\ UNCHANGED <<clock, sessions, sessionSeq, call, stat, settingsVars, noteVars, reply, timer>>

\* (mutant) the DELETE does not wait for the open transactions that refer to
\* the task
TaskNeverInUse(t) == FALSE

\* an open transaction holds a lock on task t: a key-share lock taken by its
\* inserted session row, or the lock of its UPDATE
TaskInUse(t) ==
  \E c \in Calls : call[c].pc \in {"inserted", "updated", "failed"}
                   /\ call[c].row.taskId = t

\* (mutant) the foreign key is ON DELETE SET NULL: the sessions of a deleted
\* task stay, detached from it
DeleteTaskSetNull(id) ==
  /\ ~TaskInUse(id)
  /\ tasks' = [t \in DOMAIN tasks \ {id} |-> tasks[t]]
  /\ sessions' = {IF s.taskId = id THEN [s EXCEPT !.taskId = Null] ELSE s :
                    s \in sessions}
  /\ UNCHANGED <<clock, taskSeq, sessionSeq, call, stat, settingsVars, noteVars, reply, timer>>

\* DELETE FROM tasks WHERE id = ..: waits for the row's locks, then removes the
\* task and, by ON DELETE CASCADE, its sessions; no row to delete is no error
DeleteTask(id) ==
  /\ ~TaskInUse(id)
  /\ tasks' = [t \in DOMAIN tasks \ {id} |-> tasks[t]]
  /\ sessions' = {s \in sessions : s.taskId # id}
  /\ UNCHANGED <<clock, taskSeq, sessionSeq, call, stat, settingsVars, noteVars, reply, timer>>

\* the fields of a task an update request may carry
TaskFields == {"title", "description", "estimatedPomodoros", "isCompleted"}

\* the value updateTask binds for a field of the request
BoundValue(patch, f) ==
  IF f = "description" THEN StrOrNull(patch[f]) ELSE patch[f]

\* (mutant) an update of the task starts its count of pomodoros afresh
PatchedCounterReset(row, patch) ==
  [f \in DOMAIN row |->
     IF f \in DOMAIN patch THEN BoundValue(patch, f)
     ELSE IF f = "updatedAt" THEN clock
     ELSE IF f = "completedPomodoros" THEN 0 ELSE row[f]]

\* the row with the request's fields set, and updated_at = NOW()
Patched(row, patch) ==
  [f \in DOMAIN row |->
     IF f \in DOMAIN patch THEN BoundValue(patch, f)
     ELSE IF f = "updatedAt" THEN clock ELSE row[f]]

\* the last response: the handler, its request, the error it threw ("" for
\* none) and, of a list, the ids of the rows in the order returned
NoReply == [op |-> "", req |-> <<>>, err |-> "", rows |-> <<>>]

\* (mutant) the id is looked up before the request's fields are counted
UpdateTaskErrorIdFirst(id, patch) ==
  IF id \notin DOMAIN tasks THEN "not_found"
  ELSE IF DOMAIN patch = {} THEN "invalid_argument" ELSE ""

\* if (updates.length === 0) throw APIError.invalidArgument(..), before the
\* store is reached; if (!row) throw APIError.notFound(..), after the UPDATE
\* matched no row
UpdateTaskError(id, patch) ==
  IF DOMAIN patch = {} THEN "invalid_argument"
  ELSE IF id \notin DOMAIN tasks THEN "not_found" ELSE ""

\* UPDATE tasks SET <the fields given>, updated_at = NOW() WHERE id = ..
\* RETURNING *: a request with no field is refused before the store is
\* reached, an id with no row changes nothing (not found). The statement
\* waits for an uncommitted UPDATE of the row.
UpdateTask(id, patch) ==
  /\ DOMAIN patch # {} /\ id \in DOMAIN tasks => ~RowLocked(0, id)
  /\ tasks' = IF DOMAIN patch # {} /\ id \in DOMAIN tasks
              THEN [tasks EXCEPT ![id] = Patched(tasks[id], patch)]
              ELSE tasks
  /\ reply' = [op |-> "updateTask", req |-> <<id, patch>>,
               err |-> UpdateTaskError(id, patch), rows |-> <<>>]
  /\ UNCHANGED <<clock, taskSeq, sessions, sessionSeq, call, stat, settingsVars, noteVars, timer>>

\* ------------------------------------------------------------ the settings
\* VALUES (25, 5, 15, 4): the row of default settings
DefaultWorkDuration == 25
DefaultShortBreakDuration == 5
DefaultLongBreakDuration == 15
DefaultSessionsUntilLongBreak == 4

\* getSettings is called twice
SettingsCalls == {1, 2}

\* the row INSERT INTO user_settings .. VALUES (25, 5, 15, 4) adds;
\* created_at and updated_at default to NOW()
DefaultSettingsRow ==
  [workDuration |-> DefaultWorkDuration,
   shortBreakDuration |-> DefaultShortBreakDuration,
   longBreakDuration |-> DefaultLongBreakDuration,
   sessionsUntilLongBreak |-> DefaultSessionsUntilLongBreak,
   createdAt |-> clock, updatedAt |-> clock]

\* the table after the migration: the one row it inserts, with id 1
SeededSettings == [i \in {1} |-> DefaultSettingsRow]

\* ORDER BY id LIMIT 1: the id of the first row of a table that has one
FirstSettingsId ==
  CHOOSE i \in DOMAIN settings : \A j \in DOMAIN settings : i <= j

\* the UserSettings object the handlers build from a row
SettingsResponse(id, row) ==
  [id |-> id, workDuration |-> row.workDuration,
   shortBreakDuration |-> row.shortBreakDuration,
   longBreakDuration |-> row.longBreakDuration,
   sessionsUntilLongBreak |-> row.sessionsUntilLongBreak,
   createdAt |-> row.createdAt, updatedAt |-> row.updatedAt]

NoSettings == [id |-> 0, workDuration |-> 0, shortBreakDuration |-> 0,
               longBreakDuration |-> 0, sessionsUntilLongBreak |-> 0,
               createdAt |-> 0, updatedAt |-> 0]

\* pc: idle, missing (the SELECT found no row), done (the call has returned);
\* defaultRow is the handler's local of that name, the row it inserted
IdleSettingsCall == [pc |-> "idle", defaultRow |-> NoSettings,
                     result |-> NoSettings, err |-> ""]

\* (mutant) no row is an error: the call throws and inserts nothing
SelectSettingsOrThrow(g) ==
  /\ sget[g].pc = "idle"
  /\ sget' = [sget EXCEPT ![g] =
       IF DOMAIN settings = {}
       THEN [pc |-> "done", defaultRow |-> NoSettings, result |-> NoSettings,
             err |-> "Settings not found"]
       ELSE [pc |-> "done", defaultRow |-> NoSettings, err |-> "",
             result |-> SettingsResponse(FirstSettingsId, settings[FirstSettingsId])]]
  /\ UNCHANGED <<clock, tasks, taskSeq, sessions, sessionSeq, call, stat,
                 settings, settingsSeq, noteVars, reply, timer>>

\* getSettings: SELECT * FROM user_settings ORDER BY id LIMIT 1 on the pool;
\* with a row the call returns it, with none it goes on to the INSERT
SelectSettings(g) ==
  /\ sget[g].pc = "idle"
  /\ sget' = [sget EXCEPT ![g] =
       IF DOMAIN settings = {}
       THEN [pc |-> "missing", defaultRow |-> NoSettings,
             result |-> NoSettings, err |-> ""]
       ELSE [pc |-> "done", defaultRow |-> NoSettings, err |-> "",
             result |-> SettingsResponse(FirstSettingsId, settings[FirstSettingsId])]]
  /\ UNCHANGED <<clock, tasks, taskSeq, sessions, sessionSeq, call, stat,
                 settings, settingsSeq, noteVars, reply, timer>>

\* if (!row): INSERT INTO user_settings .. VALUES (25, 5, 15, 4) RETURNING *,
\* a statement of its own on the pool; the call returns the row inserted
InsertDefaultSettings(g) ==
  /\ sget[g].pc = "missing"
  /\ settingsSeq' = settingsSeq + 1
  /\ settings' = [i \in DOMAIN settings \cup {settingsSeq + 1} |->
                    IF i \in DOMAIN settings THEN settings[i]
                    ELSE DefaultSettingsRow]
  /\ sget' = [sget EXCEPT ![g] =
       [pc |-> "done", err |-> "",
        defaultRow |-> SettingsResponse(settingsSeq + 1, DefaultSettingsRow),
        result |-> SettingsResponse(settingsSeq + 1, DefaultSettingsRow)]]
  /\ UNCHANGED <<clock, tasks, taskSeq, sessions, sessionSeq, call, stat,
                 noteVars, reply, timer>>

GetSettingsStep(g) ==
  \/ SelectSettings(g)
  \/ InsertDefaultSettings(g)

\* the client takes the response; the slot serves the next request
TakeSettings(g) ==
  /\ sget[g].pc = "done"
  /\ sget' = [sget EXCEPT ![g] = IdleSettingsCall]
  /\ UNCHANGED <<clock, tasks, taskSeq, sessions, sessionSeq, call, stat,
                 settings, settingsSeq, noteVars, reply, timer>>

\* the fields of the settings an update request may carry
SettingsFields == {"workDuration", "shortBreakDuration", "longBreakDuration",
                   "sessionsUntilLongBreak"}

\* the row with the request's fields set, and updated_at = NOW()
PatchedSettings(row, patch) ==
  [f \in DOMAIN row |->
     IF f \in DOMAIN patch THEN patch[f]
     ELSE IF f = "updatedAt" THEN clock ELSE row[f]]

\* (mutant) the update is stored as a new row, INSERT in place of UPDATE: the
\* first row with the request's fields set is added under the next id
UpdateSettingsByInsert(patch) ==
  /\ settingsSeq' = IF DOMAIN patch # {} /\ DOMAIN settings # {}
                    THEN settingsSeq + 1 ELSE settingsSeq
  /\ settings' = IF DOMAIN patch # {} /\ DOMAIN settings # {}
                 THEN [i \in DOMAIN settings \cup {settingsSeq + 1} |->
                         IF i \in DOMAIN settings THEN settings[i]
                         ELSE PatchedSettings(settings[FirstSettingsId], patch)]
                 ELSE settings
  /\ UNCHANGED <<clock, tasks, taskSeq, sessions, sessionSeq, call, stat,
                 sget, noteVars, reply, timer>>

\* updateSettings: UPDATE user_settings SET <the fields given>, updated_at =
\* NOW() WHERE id = (SELECT id FROM user_settings ORDER BY id LIMIT 1), one
\* statement. A request with no field reads the first row and writes nothing;
\* with no row in the table either request throws and writes nothing.
UpdateSettings(patch) ==
  /\ settings' = IF DOMAIN patch # {} /\ DOMAIN settings # {}
                 THEN [settings EXCEPT ![FirstSettingsId] =
                         PatchedSettings(settings[FirstSettingsId], patch)]
                 ELSE settings
  /\ UNCHANGED <<clock, tasks, taskSeq, sessions, sessionSeq, call, stat,
                 settingsSeq, sget, noteVars, reply, timer>>

\* ---------------------------------------------------------------- the notes
\* INSERT INTO notes (title, content, type) VALUES (..) RETURNING *
CreateNote(title, content, type) ==
  /\ noteSeq' = noteSeq + 1
  /\ notes' = [i \in DOMAIN notes \cup {noteSeq + 1} |->
                 IF i \in DOMAIN notes THEN notes[i]
                 ELSE [title |-> title, content |-> content, type |-> type,
                       createdAt |-> clock, updatedAt |-> clock]]
  /\ UNCHANGED <<clock, tasks, taskSeq, sessions, sessionSeq, call, stat,
                 settingsVars, reply, timer>>

\* the fields of a note an update request may carry
NoteFields == {"title", "content"}

\* UPDATE notes SET <the fields given>, updated_at = NOW() WHERE id = ..
\* RETURNING *: a request with no field is refused before the store is
\* reached, an id with no row changes nothing (not found)
UpdateNote(id, patch) ==
  /\ notes' = IF DOMAIN patch # {} /\ id \in DOMAIN notes
              THEN [notes EXCEPT ![id] =
                      [f \in DOMAIN notes[id] |->
                         IF f \in DOMAIN patch THEN patch[f]
                         ELSE IF f = "updatedAt" THEN clock ELSE notes[id][f]]]
              ELSE notes
  /\ UNCHANGED <<clock, tasks, taskSeq, sessions, sessionSeq, call, stat,
                 settingsVars, noteSeq, reply, timer>>

\* DELETE FROM notes WHERE id = ..: no row to delete is no error
DeleteNote(id) ==
  /\ notes' = [i \in DOMAIN notes \ {id} |-> notes[i]]
  /\ UNCHANGED <<clock, tasks, taskSeq, sessions, sessionSeq, call, stat,
                 settingsVars, noteSeq, reply, timer>>

\* ---------------------------------------------------------------- the lists
\* time passes between two requests: NOW() is later in the next statement
Tick ==
  /\ clock < StartClock + MaxTicks
  /\ clock' = clock + 1
  /\ UNCHANGED <<tasks, taskSeq, sessions, sessionSeq, call, stat, settingsVars, noteVars, reply, timer>>

\* the orders in which a query may return the rows of ids S: every row once
RowOrders(S) ==
  {q \in [1..Cardinality(S) -> S] : \A i, j \in DOMAIN q : i # j => q[i] # q[j]}

\* ORDER BY updated_at DESC
NoteBefore(a, b) == notes[a].updatedAt > notes[b].updatedAt

\* ORDER BY is_completed ASC, created_at DESC
TaskBefore(a, b) ==
  \/ ~tasks[a].isCompleted /\ tasks[b].isCompleted
  \/ /\ tasks[a].isCompleted = tasks[b].isCompleted
     /\ tasks[a].createdAt > tasks[b].createdAt

\* rows.map(row => ({id: row.id, title: row.title, ...})) of listNotes
NoteResponse(i) ==
  [id |-> i, title |-> notes[i].title, content |-> notes[i].content,
   type |-> notes[i].type, createdAt |-> notes[i].createdAt,
   updatedAt |-> notes[i].updatedAt]

\* row.description || undefined
StrOrUndefined(x) == IF x = NullStr \/ x = "" THEN UndefinedStr ELSE x

\* rows.map(row => ({id: row.id, title: row.title, ...})) of listTasks
TaskResponse(t) ==
  [id |-> t, title |-> tasks[t].title,
   description |-> StrOrUndefined(tasks[t].description),
   estimatedPomodoros |-> tasks[t].estimatedPomodoros,
   completedPomodoros |-> tasks[t].completedPomodoros,
   isCompleted |-> tasks[t].isCompleted,
   createdAt |-> tasks[t].createdAt, updatedAt |-> tasks[t].updatedAt]

\* SELECT * FROM notes ORDER BY updated_at DESC, mapped to the response: no
\* row comes after a row it precedes in the ORDER BY; rows that tie come in
\* any order
ListNotes ==
  /\ \E q \in RowOrders(DOMAIN notes) :
       /\ \A i, j \in DOMAIN q : i < j => ~NoteBefore(q[j], q[i])
       /\ reply' = [op |-> "listNotes", req |-> <<>>, err |-> "",
                    rows |-> [i \in DOMAIN q |-> NoteResponse(q[i])]]
  /\ UNCHANGED <<clock, tasks, taskSeq, sessions, sessionSeq, call, stat, settingsVars, noteVars, timer>>

\* SELECT * FROM tasks ORDER BY is_completed ASC, created_at DESC, mapped to
\* the response; the query reads the committed rows and takes no lock
ListTasks ==
  /\ \E q \in RowOrders(DOMAIN tasks) :
       /\ \A i, j \in DOMAIN q : i < j => ~TaskBefore(q[j], q[i])
       /\ reply' = [op |-> "listTasks", req |-> <<>>, err |-> "",
                    rows |-> [i \in DOMAIN q |-> TaskResponse(q[i])]]
  /\ UNCHANGED <<clock, tasks, taskSeq, sessions, sessionSeq, call, stat, settingsVars, noteVars, timer>>

\* ---------------------------------------------------------- getStatistics
\* A nullable aggregate (SUM, AVG): <<>> is NULL, <<v>> a value.
SqlNull == <<>>

RECURSIVE SumDurations(_)
SumDurations(S) ==
  IF S = {} THEN 0
  ELSE LET x == CHOOSE y \in S : TRUE
       IN x.durationMinutes + SumDurations(S \ {x})

\* SELECT COUNT(*) FROM pomodoro_sessions
CountSessions == Cardinality(sessions)

\* SELECT COUNT(*) ... WHERE session_type = 'work'
CountWorkSessions == Cardinality({x \in sessions : x.sessionType = "work"})

\* (mutant) the long breaks are left out of the break sessions
CountShortBreaks == Cardinality({x \in sessions : x.sessionType = "short_break"})

\* SELECT COUNT(*) ... WHERE session_type IN ('short_break', 'long_break')
CountBreakSessions == Cardinality({x \in sessions : x.sessionType \in BreakTypes})

\* SELECT SUM(duration_minutes): NULL over no rows
SumMinutes == IF sessions = {} THEN SqlNull ELSE <<SumDurations(sessions)>>

\* SELECT COUNT(*) FROM tasks WHERE is_completed = true
CountCompletedTasks == Cardinality({t \in DOMAIN tasks : tasks[t].isCompleted})

\* WHERE completed_at >= NOW() - INTERVAL 'n days'
InWindow(x, days) == x.completedAt >= clock - days * TicksPerDay

\* (mutant) the sessions are grouped by their completion time, not by its
\* calendar day
AvgDailyCountByTimestamp ==
  LET rows == {x \in sessions : InWindow(x, AvgWindowDays)}
      times == {x.completedAt : x \in rows}
  IN IF times = {} THEN SqlNull ELSE <<Cardinality(rows), Cardinality(times)>>

\* SELECT AVG(daily_count) FROM (SELECT DATE(completed_at), COUNT(*) ... GROUP
\* BY DATE(completed_at)): the mean of the groups' counts as the fraction
\* <<sum of the counts, number of groups>>, NULL over no group
AvgDailyCount ==
  LET rows == {x \in sessions : InWindow(x, AvgWindowDays)}
      days == {DateOf(x.completedAt) : x \in rows}
      dailyCount(d) == Cardinality({x \in rows : DateOf(x.completedAt) = d})
      RECURSIVE Total(_)
      Total(D) == IF D = {} THEN 0
                  ELSE LET d == CHOOSE e \in D : TRUE
                       IN dailyCount(d) + Total(D \ {d})
  IN IF days = {} THEN SqlNull ELSE <<Total(days), Cardinality(days)>>

RECURSIVE SortDesc(_)
SortDesc(S) ==
  IF S = {} THEN <<>>
  ELSE LET m == CHOOSE x \in S : \A y \in S : y <= x
       IN <<m>> \o SortDesc(S \ {m})

\* SELECT DISTINCT DATE(completed_at) ... WHERE completed_at >= NOW() -
\* INTERVAL '365 days' ORDER BY session_date DESC
StreakRows ==
  SortDesc({DateOf(x.completedAt) : x \in {y \in sessions : InWindow(y, StreakWindowDays)}})

\* (mutant) the loop counts the run of days that ends at the latest session
\* day, not at today
RECURSIVE StreakFromLatest(_, _, _)
StreakFromLatest(rows, today, i) ==
  IF i > Len(rows) THEN 0
  ELSE IF rows[i] = rows[1] - (i - 1)
       THEN 1 + StreakFromLatest(rows, today, i + 1)
       ELSE 0

\* for (i ...) { if (sessionDate == today - i) streakDays++; else break; }
\* rows is indexed from 1 here, streakRows from 0 there
RECURSIVE StreakLoop(_, _, _)
StreakLoop(rows, today, i) ==
  IF i > Len(rows) THEN 0
  ELSE IF rows[i] = today - (i - 1)
       THEN 1 + StreakLoop(rows, today, i + 1)
       ELSE 0

\* row?.count || 0
CountOrZero(n) == n

\* row?.total || 0 of a nullable aggregate
ValueOrZero(a) == IF a = SqlNull THEN 0 ELSE a[1]

\* (mutant) the mean is taken over all days of the window
TenthsOverWindow(a) ==
  IF a = SqlNull THEN 0
  ELSE (20 * a[1] + AvgWindowDays) \div (2 * AvgWindowDays)

\* Math.round((avg || 0) * 10) / 10, kept in tenths: Math.round is
\* floor(x + 0.5), and floor(10n/d + 1/2) = floor((20n + d) / 2d)
RoundedTenths(a) ==
  IF a = SqlNull THEN 0 ELSE (20 * a[1] + a[2]) \div (2 * a[2])

NoResult == [totalSessions |-> -1, totalWorkSessions |-> -1,
             totalBreakSessions |-> -1, totalMinutes |-> -1,
             completedTasks |-> -1, averageSessionsPerDay |-> -1,
             streakDays |-> -1]

\* pc counts the queries answered: 0 no call, 1..7 in the handler, 8 returned
IdleStat == [pc |-> 0, total |-> 0, work |-> 0, brk |-> 0, minutes |-> SqlNull,
             doneTasks |-> 0, avg |-> SqlNull, dates |-> <<>>,
             result |-> NoResult]

\* the handler's seven queries, one statement each on the pool (no
\* transaction): each reads the rows committed when it runs
QueryTotalSessions(g) ==
  /\ stat[g].pc = 0
  /\ stat' = [stat EXCEPT ![g].pc = 1, ![g].total = CountSessions]
  /\ UNCHANGED <<clock, tasks, taskSeq, sessions, sessionSeq, call, settingsVars, noteVars, reply, timer>>

QueryWorkSessions(g) ==
  /\ stat[g].pc = 1
  /\ stat' = [stat EXCEPT ![g].pc = 2, ![g].work = CountWorkSessions]
  /\ UNCHANGED <<clock, tasks, taskSeq, sessions, sessionSeq, call, settingsVars, noteVars, reply, timer>>

QueryBreakSessions(g) ==
  /\ stat[g].pc = 2
  /\ stat' = [stat EXCEPT ![g].pc = 3, ![g].brk = CountBreakSessions]
  /\ UNCHANGED <<clock, tasks, taskSeq, sessions, sessionSeq, call, settingsVars, noteVars, reply, timer>>

QueryTotalMinutes(g) ==
  /\ stat[g].pc = 3
  /\ stat' = [stat EXCEPT ![g].pc = 4, ![g].minutes = SumMinutes]
  /\ UNCHANGED <<clock, tasks, taskSeq, sessions, sessionSeq, call, settingsVars, noteVars, reply, timer>>

QueryCompletedTasks(g) ==
  /\ stat[g].pc = 4
  /\ stat' = [stat EXCEPT ![g].pc = 5, ![g].doneTasks = CountCompletedTasks]
  /\ UNCHANGED <<clock, tasks, taskSeq, sessions, sessionSeq, call, settingsVars, noteVars, reply, timer>>

QuerySessionsPerDay(g) ==
  /\ stat[g].pc = 5
  /\ stat' = [stat EXCEPT ![g].pc = 6, ![g].avg = AvgDailyCount]
  /\ UNCHANGED <<clock, tasks, taskSeq, sessions, sessionSeq, call, settingsVars, noteVars, reply, timer>>

QueryStreakRows(g) ==
  /\ stat[g].pc = 6
  /\ stat' = [stat EXCEPT ![g].pc = 7, ![g].dates = StreakRows]
  /\ UNCHANGED <<clock, tasks, taskSeq, sessions, sessionSeq, call, settingsVars, noteVars, reply, timer>>

\* (mutant) the handler keeps the totals it computed as a row of the notes
ReturnStatisticsNoted(g) ==
  /\ stat[g].pc = 7
  /\ stat' = [stat EXCEPT ![g] = [IdleStat EXCEPT !.pc = 8]]
  /\ noteSeq' = noteSeq + 1
  /\ notes' = [i \in DOMAIN notes \cup {noteSeq + 1} |->
                 IF i \in DOMAIN notes THEN notes[i]
                 ELSE [title |-> "statistics", content |-> "", type |-> "text",
                       createdAt |-> clock, updatedAt |-> clock]]
  /\ UNCHANGED <<clock, tasks, taskSeq, sessions, sessionSeq, call,
                 settingsVars, reply, timer>>

\* the streak loop from today = new Date() at midnight, and the return
ReturnStatistics(g) ==
  /\ stat[g].pc = 7
  /\ stat' = [stat EXCEPT ![g] =
       [IdleStat EXCEPT !.pc = 8, !.result =
          [totalSessions |-> CountOrZero(stat[g].total),
           totalWorkSessions |-> CountOrZero(stat[g].work),
           totalBreakSessions |-> CountOrZero(stat[g].brk),
           totalMinutes |-> ValueOrZero(stat[g].minutes),
           completedTasks |-> CountOrZero(stat[g].doneTasks),
           averageSessionsPerDay |-> RoundedTenths(stat[g].avg),
           streakDays |-> StreakLoop(stat[g].dates, DateOf(clock), 1)]]]
  /\ UNCHANGED <<clock, tasks, taskSeq, sessions, sessionSeq, call, settingsVars, noteVars, reply, timer>>

\* the client takes the response; the slot serves the next request
TakeStatistics(g) ==
  /\ stat[g].pc = 8
  /\ stat' = [stat EXCEPT ![g] = IdleStat]
  /\ UNCHANGED <<clock, tasks, taskSeq, sessions, sessionSeq, call, settingsVars, noteVars, reply, timer>>

GetStatisticsStep(g) ==
  \/ QueryTotalSessions(g)
  \/ QueryWorkSessions(g)
  \/ QueryBreakSessions(g)
  \/ QueryTotalMinutes(g)
  \/ QueryCompletedTasks(g)
  \/ QuerySessionsPerDay(g)
  \/ QueryStreakRows(g)
  \/ ReturnStatistics(g)

\* ------------------------------------------------------- the client's Timer
\* useState(25 * 60), duration * 60
DefaultTimerMinutes == 25
SecondsPerMinute == 60

\* the requests the Timer sends, numbered in the order they are sent: request
\* i is served by the server's call i
SaveIds == {1, 2}

\* what a handleTimerComplete reads of the render it was created in:
\* sessionType, settings and, for a work session, selectedTaskId and
\* completedWorkSessions (a break's handler uses neither). NoClosure: no
\* interval is set.
NoClosure == [sessionType |-> "", selectedTaskId |-> Undefined,
              completedWorkSessions |-> 0, settings |-> NoSettings]

Capture(t) ==
  [sessionType |-> t.sessionType,
   selectedTaskId |-> IF t.sessionType = "work" THEN t.selectedTaskId
                      ELSE Undefined,
   completedWorkSessions |-> IF t.sessionType = "work"
                             THEN t.completedWorkSessions ELSE 0,
   settings |-> t.settings]

\* the component as first rendered, after the effects of the mount: the
\* useState defaults, no settings yet, the defaults written to localStorage
\* by the save effect. closure: what the interval's handleTimerComplete has
\* captured; saves: for each request sent, its handler's state (waiting at
\* the await, orphaned: waiting in an instance that was unmounted, resolved,
\* rejected) and what the handler captured. The component does not read the
\* status of completeSessionMutation, which is left out.
FreshTimer ==
  [timerState |-> "idle", sessionType |-> "work",
   timeLeft |-> DefaultTimerMinutes * SecondsPerMinute,
   selectedTaskId |-> Undefined, completedWorkSessions |-> 0,
   totalDuration |-> DefaultTimerMinutes * SecondsPerMinute,
   settings |-> NoSettings, stored |-> TRUE, closure |-> NoClosure,
   saves |-> <<>>]

\* switch (type) { case 'work': return settings.workDuration; ... default:
\* return 25; }
getDurationForSessionType(type, s) ==
  CASE type = "work" -> s.workDuration
    [] type = "short_break" -> s.shortBreakDuration
    [] type = "long_break" -> s.longBreakDuration
    [] OTHER -> DefaultTimerMinutes

\* a % n === 0 of numbers a >= 0 and n: NaN, hence false, for n = 0; the sign
\* of n does not matter
IsMultipleOf(a, n) == n # 0 /\ a % (IF n < 0 THEN -n ELSE n) = 0

\* the request a handleTimerComplete that captured k hands to mutateAsync
SaveRequest(k) ==
  [taskId |-> IF k.sessionType = "work" THEN k.selectedTaskId ELSE Undefined,
   sessionType |-> k.sessionType,
   durationMinutes |-> getDurationForSessionType(k.sessionType, k.settings)]

\* the component shows its controls once the settings are there
ControlsShown == timer.settings # NoSettings

TimerUnchanged ==
  UNCHANGED <<clock, tasks, taskSeq, sessions, sessionSeq, call, stat, settingsVars, noteVars, reply>>

\* the state the save effect writes to localStorage
TimerData(t) ==
  <<t.timerState, t.sessionType, t.timeLeft, t.selectedTaskId,
    t.completedWorkSessions, t.totalDuration>>

\* the interval effect, deps [timerState, timeLeft]: when one of them has
\* changed, the interval is cleared and, if running with timeLeft > 0, set
\* again with the handleTimerComplete of the new render; otherwise the
\* interval of the earlier render stays
WithInterval(t) ==
  [t EXCEPT !.closure =
     IF t.timerState = timer.timerState /\ t.timeLeft = timer.timeLeft
     THEN timer.closure
     ELSE IF t.timerState = "running" /\ t.timeLeft > 0 THEN Capture(t)
          ELSE NoClosure]

\* the effects of the render that follows a handler: the save effect writes
\* the state to localStorage if it has changed, and the interval effect
Rendered(t) ==
  [WithInterval(t) EXCEPT
     !.stored = IF TimerData(t) # TimerData(timer) THEN TRUE ELSE t.stored]

\* useQuery(['settings']) delivers a response of getSettings, the first one
\* or, after an invalidation, a later one. The settings effect: if idle and
\* localStorage has no item, timeLeft and totalDuration become the duration
\* of the session type.
SettingsLoaded(s) ==
  /\ timer.settings # s
  /\ LET duration == getDurationForSessionType(timer.sessionType, s)
                       * SecondsPerMinute
     IN timer' = IF timer.timerState = "idle" /\ ~timer.stored
                 THEN Rendered([timer EXCEPT !.settings = s,
                                             !.timeLeft = duration,
                                             !.totalDuration = duration])
                 ELSE [timer EXCEPT !.settings = s]
  /\ TimerUnchanged

\* the interval's callback with prev > 1: return prev - 1
CountDown ==
  /\ timer.timerState = "running" /\ timer.timeLeft > 1
  /\ timer' = Rendered([timer EXCEPT !.timeLeft = @ - 1])
  /\ TimerUnchanged

\* the interval's callback with prev <= 1: the handleTimerComplete the
\* interval was set with, up to its await, and return 0. The handler reads
\* the values k of its render, not the current ones: without settings there
\* it returns after setTimerState('idle'); with them it sends the request and
\* waits, whether or not earlier requests are answered.
HandleTimerComplete ==
  /\ timer.timerState = "running" /\ timer.timeLeft = 1
  /\ LET k == timer.closure IN
       /\ k.sessionType = "work" => k.completedWorkSessions < MaxCompleted
       /\ k.settings # NoSettings => Len(timer.saves) + 1 \in SaveIds
       /\ timer' = Rendered(
            IF k.settings = NoSettings
            THEN [timer EXCEPT !.timerState = "idle", !.timeLeft = 0]
            ELSE [timer EXCEPT !.timerState = "idle", !.timeLeft = 0,
                               !.saves = Append(@, [state |-> "waiting",
                                                    k |-> k])])
  /\ TimerUnchanged

\* the code after the await, with the values k the handler captured: after a
\* work session the count rises and a break follows, the long one if the new
\* count is a multiple of sessionsUntilLongBreak; after a break work follows
Advanced(t, k) ==
  LET s == k.settings
      newCompletedSessions == k.completedWorkSessions + 1
  IN IF k.sessionType = "work"
     THEN IF IsMultipleOf(newCompletedSessions, s.sessionsUntilLongBreak)
          THEN [t EXCEPT !.completedWorkSessions = newCompletedSessions,
                         !.sessionType = "long_break",
                         !.timeLeft = s.longBreakDuration * SecondsPerMinute,
                         !.totalDuration = s.longBreakDuration * SecondsPerMinute]
          ELSE [t EXCEPT !.completedWorkSessions = newCompletedSessions,
                         !.sessionType = "short_break",
                         !.timeLeft = s.shortBreakDuration * SecondsPerMinute,
                         !.totalDuration = s.shortBreakDuration * SecondsPerMinute]
     ELSE [t EXCEPT !.sessionType = "work",
                    !.timeLeft = s.workDuration * SecondsPerMinute,
                    !.totalDuration = s.workDuration * SecondsPerMinute]

\* the handler of request i, once it has settled
SettledSave(ok) ==
  [state |-> IF ok THEN "resolved" ELSE "rejected", k |-> NoClosure]

\* the timer once the mutateAsync of request i has settled: the code after
\* the await if it resolved, the catch block, which only logs, if it
\* rejected. The setState calls of a handler whose instance was unmounted
\* are dropped.
Settled(i, ok) ==
  LET k == timer.saves[i].k
      t == [timer EXCEPT !.saves[i] = SettledSave(ok)]
  IN IF ok /\ timer.saves[i].state = "waiting" THEN Rendered(Advanced(t, k))
     ELSE t

\* request i is unanswered
Unanswered(i) ==
  i \in DOMAIN timer.saves /\ timer.saves[i].state \in {"waiting", "orphaned"}

\* mutateAsync resolves
SaveSucceeds(i) ==
  /\ Unanswered(i)
  /\ timer' = Settled(i, TRUE)
  /\ TimerUnchanged

\* mutateAsync rejects
SaveFails(i) ==
  /\ Unanswered(i)
  /\ timer' = Settled(i, FALSE)
  /\ TimerUnchanged

\* the server's response to request i arrives: the session returned resolves
\* mutateAsync, an error rejects it
SaveAnswered(i) ==
  /\ Unanswered(i)
  /\ call[i].pc = "done"
  /\ timer' = Settled(i, call[i].outcome = "returned")
  /\ TimerUnchanged

\* the Timer tab is left and opened again: the instance is unmounted and a
\* new one mounted. The new one starts from the useState defaults, loads the
\* item of localStorage if there is one, and writes its state there; its
\* settings are those of the query cache, s, which may have been filled,
\* updated or emptied in between; the handlers of the old instance wait on,
\* for a request of which only the answer's arrival is left to happen.
Remount(s) ==
  /\ LET loaded == IF timer.stored THEN timer
                   ELSE [timer EXCEPT
                           !.timerState = FreshTimer.timerState,
                           !.sessionType = FreshTimer.sessionType,
                           !.timeLeft = FreshTimer.timeLeft,
                           !.selectedTaskId = FreshTimer.selectedTaskId,
                           !.completedWorkSessions = FreshTimer.completedWorkSessions,
                           !.totalDuration = FreshTimer.totalDuration]
         t == [loaded EXCEPT
                 !.settings = s, !.stored = TRUE,
                 !.saves = [i \in DOMAIN timer.saves |->
                              IF timer.saves[i].state = "waiting"
                              THEN [state |-> "orphaned",
                                    k |-> [timer.saves[i].k EXCEPT
                                             !.completedWorkSessions = 0]]
                              ELSE timer.saves[i]]]
     IN timer' = [t EXCEPT !.closure =
                    IF t.timerState = "running" /\ t.timeLeft > 0
                    THEN Capture(t) ELSE NoClosure]
  /\ TimerUnchanged

\* Start or Resume, shown while idle or paused
handleStart ==
  /\ ControlsShown /\ timer.timerState \in {"idle", "paused"}
  /\ timer' = Rendered([timer EXCEPT !.timerState = "running"])
  /\ TimerUnchanged

\* Pause, shown while running
handlePause ==
  /\ ControlsShown /\ timer.timerState = "running"
  /\ timer' = Rendered([timer EXCEPT !.timerState = "paused"])
  /\ TimerUnchanged

\* Stop, disabled while idle
handleStop ==
  /\ ControlsShown /\ timer.timerState # "idle"
  /\ LET duration == getDurationForSessionType(timer.sessionType, timer.settings)
                       * SecondsPerMinute
     IN timer' = Rendered([timer EXCEPT !.timerState = "idle",
                                        !.timeLeft = duration,
                                        !.totalDuration = duration])
  /\ TimerUnchanged

\* Reset: the new state and localStorage.removeItem; the save effect writes
\* the item again if the state has changed
handleReset ==
  /\ ControlsShown
  /\ LET duration == timer.settings.workDuration * SecondsPerMinute
     IN timer' = Rendered([timer EXCEPT !.timerState = "idle",
                                        !.completedWorkSessions = 0,
                                        !.sessionType = "work",
                                        !.timeLeft = duration,
                                        !.totalDuration = duration,
                                        !.stored = FALSE])
  /\ TimerUnchanged

\* the session type Select, disabled while running, changed to value
handleSessionTypeChange(value) ==
  /\ ControlsShown /\ timer.timerState # "running"
  /\ value # timer.sessionType
  /\ LET duration == getDurationForSessionType(value, timer.settings)
                       * SecondsPerMinute
     IN timer' = Rendered(IF timer.timerState = "idle"
                          THEN [timer EXCEPT !.sessionType = value,
                                             !.timeLeft = duration,
                                             !.totalDuration = duration]
                          ELSE [timer EXCEPT !.sessionType = value])
  /\ TimerUnchanged

\* the task Select, disabled while running and for the breaks
SelectTask(value) ==
  /\ ControlsShown /\ timer.timerState # "running"
  /\ timer.sessionType = "work"
  /\ value # timer.selectedTaskId
  /\ timer' = Rendered([timer EXCEPT !.selectedTaskId = value])
  /\ TimerUnchanged

\* ---------------------------------------------------------- specifications
Init ==
  /\ clock = StartClock
  /\ tasks = <<>>
  /\ taskSeq = 0
  /\ sessions = {}
  /\ sessionSeq = 0
  /\ call = [c \in Calls |-> IdleCall]
  /\ stat = [g \in StatCalls |-> IdleStat]
  /\ settings = SeededSettings
  /\ settingsSeq = 1
  /\ sget = [g \in SettingsCalls |-> IdleSettingsCall]
  /\ notes = <<>>
  /\ noteSeq = 0
  /\ reply = NoReply
  /\ timer = FreshTimer

\* the requests of the session recorder's clients
Requests ==
  [taskId : {Undefined} \cup TaskIds, sessionType : SessionTypes,
   durationMinutes : {25}]

\* two clients call completeSession, each once, at any time
SpecCalls == {1, 2}

Next ==
  \/ \E c \in SpecCalls, r \in Requests : BeginCall(c, r)
  \/ \E c \in SpecCalls : InsertSession(c)
  \/ \E c \in SpecCalls : Rollback(c)
  \/ \E c \in SpecCalls : IncrementTask(c)
  \/ \E c \in SpecCalls : IncrementFails(c)
  \/ \E c \in SpecCalls : CommitCall(c)
  \/ \E c \in SpecCalls : CommitFails(c)
  \/ CreateTask("a", UndefinedStr, 1)
  \/ \E t \in TaskIds : DeleteTask(t)

Spec == Init /\ [][Next]_vars

\* -- the statistics of a store whose writers run one at a time
Quiet == \A c \in Calls : call[c].pc \in {"idle", "done"}
NoStatistics == \A g \in StatCalls : stat[g].pc = 0

\* the one task of the store while statistics are read
StatTasks == {1}

\* the requests made of the store while statistics are read: the kinds of
\* session with the durations the timer gives them, with and without the task
StatRequests ==
  {[taskId |-> t, sessionType |-> k[1], durationMinutes |-> k[2]] :
     t \in {Undefined} \cup StatTasks,
     k \in {<<"work", 25>>, <<"short_break", 5>>, <<"long_break", 15>>}}

\* the task updates made while statistics are read
StatPatches == {[isCompleted |-> TRUE]}

Write ==
  \/ \E c \in Calls, r \in StatRequests : Quiet /\ BeginCall(c, r)
  \/ \E c \in Calls : InsertSession(c)
  \/ \E c \in Calls : Rollback(c)
  \/ \E c \in Calls : IncrementTask(c)
  \/ \E c \in Calls : CommitCall(c)
  \/ taskSeq + 1 \in StatTasks /\ CreateTask("a", UndefinedStr, 1)
  \/ \E t \in StatTasks, p \in StatPatches : UpdateTask(t, p)
  \/ \E t \in StatTasks : DeleteTask(t)

\* no write while a getStatistics call is open or its response is held; the
\* second call starts when the first has returned
SeqNext ==
  \/ NoStatistics /\ Write
  \/ \E g \in StatCalls :
       /\ \A h \in StatCalls : h < g => stat[h].pc = 8
       /\ GetStatisticsStep(g)
  \/ \E g \in StatCalls : TakeStatistics(g)

SpecStatsSeq == Init /\ [][SeqNext]_vars

\* -- two getStatistics calls in any interleaving of their queries, with no
\* write committed from the first query of either to the return of both:
\* statements that commit (the COMMIT of a completeSession call, createTask,
\* updateTask, deleteTask) run while no getStatistics call is open or its
\* response held; completeSession calls begin, insert, increment, and roll
\* back a refused insert at any time, committing nothing meanwhile.
\* The completeSession requests: a work session of the task (its insert is
\* refused while the task has no row) and a break
TwiceRequests ==
  {[taskId |-> 1, sessionType |-> "work", durationMinutes |-> 25],
   [taskId |-> Undefined, sessionType |-> "short_break", durationMinutes |-> 5]}

Commits ==
  \/ \E c \in SpecCalls : NoStatistics /\ CommitCall(c)
  \/ NoStatistics /\ taskSeq + 1 \in StatTasks /\ CreateTask("a", UndefinedStr, 1)
  \/ \E t \in StatTasks, p \in StatPatches : NoStatistics /\ UpdateTask(t, p)
  \/ \E t \in StatTasks : NoStatistics /\ DeleteTask(t)

Uncommitted ==
  \/ \E c \in SpecCalls, r \in TwiceRequests : BeginCall(c, r)
  \/ \E c \in SpecCalls : InsertSession(c)
  \/ \E c \in SpecCalls : IncrementTask(c)
  \/ \E c \in SpecCalls : Rollback(c)

TwiceNext ==
  \/ Commits
  \/ Uncommitted
  \/ \E g \in StatCalls : GetStatisticsStep(g)

SpecStatsTwice == Init /\ [][TwiceNext]_vars

\* writes commit while one getStatistics call is between its queries
ConcNext ==
  \/ Write
  \/ GetStatisticsStep(1)
  \/ TakeStatistics(1)

SpecStatsConc == Init /\ [][ConcNext]_vars

\* -- getStatistics as a function of the session table and the clock
\* the completion times of the stored sessions: at the current time of day
\* (delta 0) or a tick earlier in the day (delta 1), today, on the three days
\* before, and on the last day of each trailing window
FnTimes ==
  {StartClock - d * TicksPerDay - delta :
     d \in {0, 1, 2, 3, AvgWindowDays, StreakWindowDays}, delta \in {0, 1}}

\* the session rows of completion times f[1] <= f[2] <= .., in id order
RowsAt(f) ==
  {[id |-> i, taskId |-> Null, sessionType |-> "work", durationMinutes |-> 25,
    completedAt |-> f[i]] : i \in DOMAIN f}

\* the sequences of k completion times in ascending order
RECURSIVE Ascending(_)
Ascending(k) ==
  IF k = 0 THEN {<<>>}
  ELSE UNION {{Append(h, t) : t \in {u \in FnTimes : k = 1 \/ h[k - 1] <= u}} :
                h \in Ascending(k - 1)}

\* the session tables of at most MaxRows rows completed at those times
FnTables == {RowsAt(f) : f \in UNION {Ascending(k) : k \in 0..MaxRows}}

InitFn ==
  /\ clock = StartClock
  /\ tasks = <<>>
  /\ taskSeq = 0
  /\ sessions \in FnTables
  /\ sessionSeq = Cardinality(sessions)
  /\ call = [c \in Calls |-> IdleCall]
  /\ stat = [g \in StatCalls |-> IdleStat]
  /\ settings = SeededSettings
  /\ settingsSeq = 1
  /\ sget = [g \in SettingsCalls |-> IdleSettingsCall]
  /\ notes = <<>>
  /\ noteSeq = 0
  /\ reply = NoReply
  /\ timer = FreshTimer

FnNext ==
  \/ GetStatisticsStep(1)
  \/ TakeStatistics(1)

SpecStatsFn == InitFn /\ [][FnNext]_vars

\* -- the settings: getSettings calls in any interleaving with each other and
\* with updateSettings. The table starts as the migration leaves it, with the
\* one row it inserts; no handler deletes from user_settings, so the SELECT of
\* getSettings finds a row in every state and the call returns it.
InitSettings ==
  /\ clock = StartClock
  /\ tasks = <<>>
  /\ taskSeq = 0
  /\ sessions = {}
  /\ sessionSeq = 0
  /\ call = [c \in Calls |-> IdleCall]
  /\ stat = [g \in StatCalls |-> IdleStat]
  /\ settings = SeededSettings
  /\ settingsSeq = 1
  /\ sget = [g \in SettingsCalls |-> IdleSettingsCall]
  /\ notes = <<>>
  /\ noteSeq = 0
  /\ reply = NoReply
  /\ timer = FreshTimer

\* the settings updates requested: no field, one field, two fields, and
\* values that are no durations or counts
SettingsPatches ==
  {<<>>, [workDuration |-> 50], [shortBreakDuration |-> 10],
   [longBreakDuration |-> 20, sessionsUntilLongBreak |-> 2],
   [workDuration |-> 0, sessionsUntilLongBreak |-> 1],
   [shortBreakDuration |-> -5]}

SettingsNext ==
  \/ \E g \in SettingsCalls : SelectSettings(g)
  \/ \E p \in SettingsPatches : UpdateSettings(p)

SpecSettings == InitSettings /\ [][SettingsNext]_vars

\* -- getSettings on a user_settings table that has no row: the case its
\* if (!row) branch provides for, and the input the INSERT of the default row
\* is defined on. The migration does not leave this table and no handler
\* produces it; only the behaviour of that branch is read off this store.
InitNoSettingsRow ==
  /\ clock = StartClock
  /\ tasks = <<>>
  /\ taskSeq = 0
  /\ sessions = {}
  /\ sessionSeq = 0
  /\ call = [c \in Calls |-> IdleCall]
  /\ stat = [g \in StatCalls |-> IdleStat]
  /\ settings = <<>>
  /\ settingsSeq = 0
  /\ sget = [g \in SettingsCalls |-> IdleSettingsCall]
  /\ notes = <<>>
  /\ noteSeq = 0
  /\ reply = NoReply
  /\ timer = FreshTimer

NoSettingsRowNext ==
  \/ \E g \in SettingsCalls : GetSettingsStep(g)
  \/ \E p \in SettingsPatches : UpdateSettings(p)

SpecNoSettingsRow == InitNoSettingsRow /\ [][NoSettingsRowNext]_vars

\* -- the whole API on one store: the requests are served one at a time,
\* except that task updates may fall between the steps of a completeSession
\* call
NoSettingsCall == \A g \in SettingsCalls : sget[g].pc = "idle"
StoreIdle == Quiet /\ NoStatistics /\ NoSettingsCall

\* the call slots, the one note and the requests of this store
StoreCalls == {1, 2}
StoreNotes == {1}
StoreRequests ==
  {[taskId |-> 1, sessionType |-> "work", durationMinutes |-> 25],
   [taskId |-> Undefined, sessionType |-> "work", durationMinutes |-> 25],
   [taskId |-> 1, sessionType |-> "short_break", durationMinutes |-> 5]}
StoreTaskPatches == {[isCompleted |-> TRUE], [title |-> "b", description |-> ""]}
StoreSettingsPatches == {<<>>, [workDuration |-> 50]}
StoreNotePatches == {<<>>, [content |-> "y"]}

StoreNext ==
  \/ \E c \in StoreCalls, r \in StoreRequests : StoreIdle /\ BeginCall(c, r)
  \/ \E c \in StoreCalls : InsertSession(c)
  \/ \E c \in StoreCalls : Rollback(c)
  \/ \E c \in StoreCalls : IncrementTask(c)
  \/ \E c \in StoreCalls : CommitCall(c)
  \/ StoreIdle /\ taskSeq + 1 \in StatTasks /\ CreateTask("a", UndefinedStr, 1)
  \/ \E t \in StatTasks, p \in StoreTaskPatches :
       NoStatistics /\ NoSettingsCall /\ UpdateTask(t, p)
  \/ \E t \in StatTasks : StoreIdle /\ DeleteTask(t)
  \/ StoreIdle /\ SelectSettings(1)
  \/ TakeSettings(1)
  \/ \E p \in StoreSettingsPatches : StoreIdle /\ UpdateSettings(p)
  \/ StoreIdle /\ noteSeq + 1 \in StoreNotes /\ CreateNote("n", "x", "text")
  \/ \E n \in StoreNotes, p \in StoreNotePatches : StoreIdle /\ UpdateNote(n, p)
  \/ \E n \in StoreNotes : StoreIdle /\ DeleteNote(n)
  \/ Quiet /\ NoSettingsCall /\ GetStatisticsStep(1)
  \/ TakeStatistics(1)

SpecStore == Init /\ [][StoreNext]_vars

\* -- completeSession under any request the API's JSON can carry: a
\* sessionType outside the three, a duration that is zero or negative
AnyRequests ==
  [taskId : {Undefined} \cup StatTasks,
   sessionType : {"work", "short_break", "nap"},
   durationMinutes : {25, 0, -5}]

AnyNext ==
  \/ \E c \in Calls, r \in AnyRequests : Quiet /\ BeginCall(c, r)
  \/ \E c \in Calls : InsertSession(c)
  \/ \E c \in Calls : Rollback(c)
  \/ \E c \in Calls : IncrementTask(c)
  \/ \E c \in Calls : CommitCall(c)
  \/ taskSeq + 1 \in StatTasks /\ CreateTask("a", UndefinedStr, 1)
  \/ \E t \in StatTasks : DeleteTask(t)

SpecAnyRequest == Init /\ [][AnyNext]_vars

\* ------------------------------------------------------------------ claims
\* the committed completeSession calls that are work sessions of task t
CommittedWork(t) ==
  {c \in Calls : /\ call[c].committed
                 /\ call[c].req.sessionType = "work"
                 /\ call[c].req.taskId = t}

\* C1: for every task, completedPomodoros is the number of committed
\* completeSession calls with sessionType = work and that taskId, whatever the
\* interleaving of the calls' transaction steps: no increment is lost, none is
\* applied twice.
C1_NoLostIncrement ==
  \A t \in DOMAIN tasks :
    tasks[t].completedPomodoros = Cardinality(CommittedWork(t))

\* C1 witness: a call that inserted later has overtaken an earlier one of the
\* same task and committed; the earlier one has since incremented on top of it.
C1_Witness ==
  \E c, d \in Calls :
    /\ call[c].committed /\ call[d].pc = "updated"
    /\ call[d].row.id < call[c].row.id
    /\ call[c].req.taskId = call[d].req.taskId
    /\ call[c].req.sessionType = "work"
    /\ call[d].taskWrite = 2

\* C2: after the task-increment step of a call has failed, the session table
\* holds no row of that call and the task's completedPomodoros counts only the
\* committed calls, as before the call.
C2_RollbackOnIncrementFailure ==
  \A c \in Calls :
    call[c].pc = "done" /\ call[c].err = "update" =>
      /\ \A s \in sessions : s.id # call[c].row.id
      /\ call[c].req.taskId \in DOMAIN tasks =>
           tasks[call[c].req.taskId].completedPomodoros
             = Cardinality(CommittedWork(call[c].req.taskId) \ {c})

\* C2 witness: a call's increment step has failed after its insert, while
\* another call of the same task has committed.
C2_Witness ==
  \E c, d \in Calls :
    /\ call[c].pc = "done" /\ call[c].err = "update" /\ call[c].row.id > 0
    /\ call[d].committed /\ call[d].req = call[c].req
    /\ call[c].req.taskId \in DOMAIN tasks

\* C3 (as claimed): whenever a call has thrown to its caller, no session row
\* of the call is persisted and no task counter was changed by it.
C3_ThrownMeansNotRecorded ==
  \A c \in Calls :
    call[c].outcome = "thrown" =>
      /\ \A s \in sessions : s.id # call[c].row.id
      /\ \A t \in DOMAIN tasks :
           tasks[t].completedPomodoros = Cardinality(CommittedWork(t) \ {c})

\* C4 (as claimed): whenever the insert and the conditional update of a call
\* have committed, the call returns the persisted session, not an error.
C4_CommittedReturnsSession ==
  \A c \in Calls :
    call[c].pc = "done" /\ call[c].committed =>
      call[c].outcome = "returned"

\* C5: a step of a call with sessionType short_break or long_break changes no
\* task's completedPomodoros, with or without a taskId; a step that changes the
\* completedPomodoros of task t is a step of a work call with taskId = t.
C5_BreaksLeaveTasks ==
  [][ /\ \A c \in Calls :
           call'[c] # call[c] /\ call'[c].req.sessionType \in BreakTypes =>
             \A t \in DOMAIN tasks :
               /\ t \in DOMAIN tasks'
               /\ tasks'[t].completedPomodoros = tasks[t].completedPomodoros
      /\ \A t \in DOMAIN tasks \cap DOMAIN tasks' :
           tasks'[t].completedPomodoros # tasks[t].completedPomodoros =>
             \E c \in Calls : /\ call'[c] # call[c]
                              /\ call[c].req.sessionType = "work"
                              /\ Truthy(call[c].req.taskId)
                              /\ call[c].req.taskId = t ]_vars

\* C5 witness: a break session that names an existing task has committed and
\* the task's counter is still 0, while a work session has raised another's.
C5_Witness ==
  \E c \in Calls :
    /\ call[c].committed /\ call[c].req.sessionType \in BreakTypes
    /\ call[c].req.taskId \in DOMAIN tasks
    /\ call[c].row \in sessions
    /\ tasks[call[c].req.taskId].completedPomodoros = 0

\* the committed completeSession calls
Committed == {c \in Calls : call[c].committed}

RECURSIVE SumRequested(_)
SumRequested(C) ==
  IF C = {} THEN 0
  ELSE LET c == CHOOSE d \in C : TRUE
       IN call[c].req.durationMinutes + SumRequested(C \ {c})

\* C6: when no task has been deleted, a getStatistics call made after n
\* sessions were committed returns totalSessions = n, totalMinutes = the sum of
\* the requested durations, totalWorkSessions and totalBreakSessions = the
\* number of work and of break requests among them; with n = 0 the session
\* counts, averageSessionsPerDay and streakDays are 0. (completedTasks counts
\* the completed tasks, whatever n.)
C6_TotalsOfCommittedSessions ==
  \A g \in StatCalls :
    stat[g].pc = 8 /\ Cardinality(DOMAIN tasks) = taskSeq =>
      LET r == stat[g].result IN
        /\ r.totalSessions = Cardinality(Committed)
        /\ r.totalMinutes = SumRequested(Committed)
        /\ r.totalWorkSessions
             = Cardinality({c \in Committed : call[c].req.sessionType = "work"})
        /\ r.totalBreakSessions
             = Cardinality({c \in Committed :
                              call[c].req.sessionType \in {"short_break", "long_break"}})
        /\ r.completedTasks
             = Cardinality({t \in DOMAIN tasks : tasks[t].isCompleted})
        /\ Committed = {} =>
             /\ r.totalSessions = 0 /\ r.totalMinutes = 0
             /\ r.totalWorkSessions = 0 /\ r.totalBreakSessions = 0
             /\ r.averageSessionsPerDay = 0 /\ r.streakDays = 0

\* C6 witness: statistics returned after a work session and a long break were
\* committed, with the task still there.
C6_Witness ==
  \E g \in StatCalls, c, d \in Committed :
    /\ stat[g].pc = 8 /\ Cardinality(DOMAIN tasks) = taskSeq /\ taskSeq > 0
    /\ call[c].req.sessionType = "work" /\ call[d].req.sessionType = "long_break"
    /\ stat[g].result.totalSessions = 2 /\ stat[g].result.totalMinutes = 40

\* C7 (as claimed): every result of getStatistics has totalWorkSessions +
\* totalBreakSessions = totalSessions, also when writes commit between its
\* queries.
C7_ResultIsOneSnapshot ==
  \A g \in StatCalls :
    stat[g].pc = 8 =>
      stat[g].result.totalWorkSessions + stat[g].result.totalBreakSessions
        = stat[g].result.totalSessions

\* the calendar days that have a session completed in the trailing 365 days
StreakDaySet ==
  {DateOf(x.completedAt) :
     x \in {y \in sessions :
              y.completedAt >= clock - StreakWindowDays * TicksPerDay}}

\* each of today, today-1, .., today-(k-1) has such a session
IsRun(k) == \A i \in 0..(k - 1) : DateOf(clock) - i \in StreakDaySet

\* C8: streakDays is the largest k such that each of today, .., today-(k-1)
\* has a session completed in the trailing 365 days; it is 0 when today has
\* none.
C8_StreakIsLongestRunFromToday ==
  stat[1].pc = 8 =>
    LET k == stat[1].result.streakDays IN
      /\ k >= 0 /\ IsRun(k)
      /\ \A j \in 0..(Cardinality(sessions) + 1) : IsRun(j) => j <= k
      /\ DateOf(clock) \notin StreakDaySet => k = 0

\* C8 witness: sessions today, yesterday and the day before, none on
\* today-3, and an older one: the streak returned is 3.
C8_Witness ==
  /\ stat[1].pc = 8 /\ stat[1].result.streakDays = 3
  /\ DateOf(clock) - 3 \notin StreakDaySet
  /\ DateOf(clock) - AvgWindowDays \in StreakDaySet

\* the sessions of the trailing 30-day window, and their calendar days
AvgRows == {x \in sessions : x.completedAt >= clock - AvgWindowDays * TicksPerDay}
AvgDays == {DateOf(x.completedAt) : x \in AvgRows}

\* C9: averageSessionsPerDay is the number of sessions of the 30-day window
\* divided by the number of days of the window that have a session, rounded
\* half up to one decimal (m tenths with m - 1/2 <= 10 n / d < m + 1/2), and
\* 0 when the window has no session.
C9_AverageOverDaysWithSessions ==
  stat[1].pc = 8 =>
    LET m == stat[1].result.averageSessionsPerDay
        n == Cardinality(AvgRows)
        d == Cardinality(AvgDays)
    IN IF n = 0 THEN m = 0
       ELSE 2 * m * d - d <= 20 * n /\ 20 * n < 2 * m * d + d

\* C9 witness: three sessions on one day and one on another, none else in the
\* window: the average returned is 2.0.
C9_Witness ==
  /\ stat[1].pc = 8 /\ stat[1].result.averageSessionsPerDay = 20
  /\ Cardinality(AvgRows) = 4 /\ Cardinality(AvgDays) = 2
  /\ \E a \in AvgDays :
       Cardinality({x \in AvgRows : DateOf(x.completedAt) = a}) = 3

\* C10: two getStatistics calls with no tick of the clock and no write
\* committed between or during them return the same seven values, whatever
\* the order of their queries and whatever completeSession calls are begun,
\* advanced or rolled back, uncommitted, meanwhile.
C10_SameResultTwice ==
  stat[1].pc = 8 /\ stat[2].pc = 8 => stat[1].result = stat[2].result

\* C10 witness: both calls have returned, on a store with a completed task
\* and one committed session, while a completeSession call holds a second
\* session row it has inserted and not committed.
C10_Witness ==
  /\ stat[1].pc = 8 /\ stat[2].pc = 8
  /\ stat[2].result.totalSessions = 1 /\ stat[2].result.completedTasks > 0
  /\ \E c \in Calls :
       /\ call[c].pc \in {"inserted", "updated"}
       /\ call[c].row.id = 2 /\ call[c].row \notin sessions


\* C11: every step of a getStatistics call (each of its queries, its return)
\* leaves the tasks, pomodoro_sessions, user_settings and notes tables as they
\* were: no row is inserted, updated or deleted.
C11_StatisticsOnlyReads ==
  [][ (\E g \in StatCalls : stat'[g] # stat[g] /\ stat[g].pc < 8) =>
        /\ tasks' = tasks /\ sessions' = sessions
        /\ settings' = settings /\ notes' = notes ]_vars

\* C11 witness: a getStatistics call has returned on a store whose four
\* tables each hold a row.
C11_Witness ==
  /\ stat[1].pc = 8 /\ stat[1].result.totalSessions > 0
  /\ DOMAIN tasks # {} /\ sessions # {}
  /\ DOMAIN settings # {} /\ DOMAIN notes # {}


\* C12: a getSettings call that reads the user_settings table while it has no
\* row does not end there; it inserts one row, changes no other, and returns
\* workDuration 25, shortBreakDuration 5, longBreakDuration 15,
\* sessionsUntilLongBreak 4; the table then holds the row returned, with those
\* values.
C12_DefaultsOnEmptyTable ==
  [][ \A g \in SettingsCalls :
        /\ (sget[g].pc = "idle" /\ sget'[g] # sget[g] /\ DOMAIN settings = {})
             => sget'[g].pc = "missing" /\ sget'[g].err = ""
        /\ (sget[g].pc = "missing" /\ sget'[g] # sget[g]) =>
             LET r == sget'[g].result IN
               /\ sget'[g].pc = "done" /\ sget'[g].err = ""
               /\ r.workDuration = 25 /\ r.shortBreakDuration = 5
               /\ r.longBreakDuration = 15 /\ r.sessionsUntilLongBreak = 4
               /\ r.id \notin DOMAIN settings
               /\ DOMAIN settings' = DOMAIN settings \cup {r.id}
               /\ \A i \in DOMAIN settings : settings'[i] = settings[i]
               /\ SettingsResponse(r.id, settings'[r.id]) = r ]_vars

\* C12 witness: a call that found no row has returned the row it inserted,
\* the only row of the table.
C12_Witness ==
  \E g \in SettingsCalls :
    /\ sget[g].pc = "done" /\ sget[g].defaultRow # NoSettings
    /\ DOMAIN settings = {sget[g].result.id}
    /\ sget[g].result.workDuration = 25
    /\ sget[g].result.sessionsUntilLongBreak = 4


\* C13: once a getSettings call has completed, the user_settings table holds
\* exactly one row, whatever the interleaving of the getSettings and
\* updateSettings calls on the table the migration has seeded.
C13_ExactlyOneSettingsRow ==
  (\E g \in SettingsCalls : sget[g].pc = "done") =>
    Cardinality(DOMAIN settings) = 1

\* C13 witness: both getSettings calls have completed, an updateSettings
\* having changed the row between their reads and another after them, and
\* the table holds the one row.
C13_Witness ==
  /\ sget[1].pc = "done" /\ sget[2].pc = "done"
  /\ sget[1].result.workDuration # sget[2].result.workDuration
  /\ Cardinality(DOMAIN settings) = 1
  /\ \E g \in SettingsCalls :
       settings[FirstSettingsId].shortBreakDuration
         # sget[g].result.shortBreakDuration


\* C14: no step lowers the completedPomodoros of a task that exists before
\* and after it, whichever operation (completeSession, createTask, updateTask,
\* deleteTask, a settings or a note operation) the step belongs to; a step
\* that raises it raises it by one and is the commit of a work session that
\* names the task.
C14_CounterNeverDecreases ==
  [][ \A t \in DOMAIN tasks \cap DOMAIN tasks' :
        /\ tasks'[t].completedPomodoros >= tasks[t].completedPomodoros
        /\ tasks'[t].completedPomodoros > tasks[t].completedPomodoros =>
             /\ tasks'[t].completedPomodoros = tasks[t].completedPomodoros + 1
             /\ \E c \in Calls : /\ ~call[c].committed /\ call'[c].committed
                                 /\ call[c].req.sessionType = "work"
                                 /\ call[c].req.taskId = t ]_vars

\* C14 witness: a task that two work sessions have raised to 2 has been
\* renamed and marked completed, on a store whose settings were updated and
\* that holds a note.
C14_Witness ==
  /\ 1 \in DOMAIN tasks /\ tasks[1].completedPomodoros = 2
  /\ tasks[1].title = "b" /\ tasks[1].isCompleted
  /\ settings[1].workDuration = 50 /\ DOMAIN notes # {}


\* C15 (as claimed): a completeSession call whose durationMinutes is zero or
\* negative never gets as far as its INSERT and never commits, and every
\* persisted session has durationMinutes > 0.
C15_NonPositiveDurationRejected ==
  /\ \A c \in Calls :
       call[c].pc # "idle" /\ call[c].req.durationMinutes <= 0 =>
         call[c].row = NoRow /\ ~call[c].committed
  /\ \A s \in sessions : s.durationMinutes > 0


\* C16: a step of a completeSession call whose sessionType is not work,
\* short_break or long_break changes neither the session table nor any task,
\* and the call never gets past its INSERT: it is turned down there, rolled
\* back and ends thrown and uncommitted; every persisted session has one of
\* the three types.
C16_InvalidTypePersistsNothing ==
  [][ /\ \A s \in sessions' :
           s.sessionType \in {"work", "short_break", "long_break"}
      /\ \A c \in Calls :
           (/\ call'[c] # call[c]
            /\ call'[c].req.sessionType
                 \notin {"work", "short_break", "long_break"}) =>
             /\ tasks' = tasks /\ sessions' = sessions
             /\ call'[c].row = NoRow /\ ~call'[c].committed
             /\ \/ call[c].pc = "idle" /\ call'[c].pc = "begun"
                \/ /\ call[c].pc = "begun" /\ call'[c].pc = "failed"
                   /\ call'[c].err = "insert"
                \/ /\ call[c].pc = "failed" /\ call'[c].pc = "done"
                   /\ call'[c].outcome = "thrown" ]_vars

\* C16 witness: a call of an unknown type that names an existing task has been
\* turned down, after a work session of that task was committed.
C16_Witness ==
  \E c, d \in Calls :
    /\ call[c].pc = "done" /\ call[c].req.sessionType = "nap"
    /\ call[c].req.taskId \in DOMAIN tasks /\ call[c].err = "insert"
    /\ call[d].committed /\ call[d].row \in sessions /\ call[d].row.id < sessionSeq
    /\ tasks[call[c].req.taskId].completedPomodoros = 1


\* C17 (as claimed): a completeSession call whose taskId names no existing
\* task does not fail: barring a failure of the store at the increment or the
\* commit, every call that has ended has its session recorded.
C17_MissingTaskIsRecorded ==
  \A c \in Calls :
    call[c].pc = "done" /\ call[c].err \notin {"update", "commit"} =>
      call[c].committed

\* C17 (amended): a completeSession call whose taskId names no existing task
\* (never created, or deleted) when its row is inserted fails at the INSERT:
\* the call throws, uncommitted, no session row is recorded for it and no
\* task is changed.
C17_MissingTaskIsRejected ==
  [][ \A c \in Calls :
        /\ (/\ call[c].pc = "begun" /\ call'[c].pc # "begun"
             /\ Truthy(call[c].req.taskId)
             /\ call[c].req.taskId \notin DOMAIN tasks) =>
              /\ call'[c].pc = "failed" /\ call'[c].err = "insert"
              /\ call'[c].row = NoRow /\ ~call'[c].committed
              /\ sessions' = sessions /\ tasks' = tasks
        /\ (call[c].err = "insert" /\ call'[c] # call[c]) =>
              /\ call'[c].pc = "done" /\ call'[c].outcome = "thrown"
              /\ call'[c].row = NoRow /\ ~call'[c].committed
              /\ sessions' = sessions /\ tasks' = tasks ]_vars

\* C17 witness: one call named a task that had been deleted, another a task
\* never created; both were turned down, and the remaining task is untouched.
C17_Witness ==
  \E c, d \in Calls :
    /\ call[c].pc = "done" /\ call[c].err = "insert"
    /\ call[c].req.taskId <= taskSeq /\ call[c].req.taskId \notin DOMAIN tasks
    /\ call[d].pc = "done" /\ call[d].err = "insert"
    /\ call[d].req.taskId > taskSeq
    /\ sessions = {} /\ sessionSeq = 2


\* C18: a committed session row keeps its id, taskId, sessionType,
\* durationMinutes and completedAt for as long as it exists: across every
\* step, a row of the table after the step that has the id of a row before it
\* is that row, and no two rows share an id. Rows come and go, none is
\* rewritten.
C18_SessionsImmutable ==
  [][ /\ \A s \in sessions, u \in sessions' : s.id = u.id => u = s
      /\ \A s, u \in sessions' : s.id = u.id => s = u ]_vars

\* C18 witness: two sessions were committed; a deleteTask has removed one by
\* cascade, the other is still the row its call inserted.
C18_Witness ==
  \E c, d \in Calls :
    /\ call[c].committed /\ call[c].row \in sessions
    /\ call[d].committed /\ call[d].row \notin sessions
    /\ call[d].row.id < call[c].row.id
    /\ call[c].row.taskId \in DOMAIN tasks


\* C19 (as claimed): every persisted session that has a taskId is a work
\* session; the taskId of a short_break or long_break request is not stored.
C19_TaskIdOnlyOnWork ==
  \A s \in sessions : s.taskId # Null => s.sessionType = "work"


\* C20: after every step, the taskId of every session that has one is the id
\* of an existing task; a step that deletes task t removes exactly the
\* sessions whose taskId is t, and no other step removes a session. This holds
\* in every interleaving of deleteTask with the steps of the completeSession
\* calls that name t.
C20_CascadeKeepsReferences ==
  [][ /\ \A s \in sessions' : s.taskId # Null => s.taskId \in DOMAIN tasks'
      /\ \A t \in DOMAIN tasks \ DOMAIN tasks' :
           sessions' = {s \in sessions : s.taskId # t}
      /\ \A s \in sessions \ sessions' :
           s.taskId \in DOMAIN tasks \ DOMAIN tasks' ]_vars

\* C20 witness: a session of task t and, after it, a session of another task
\* were committed; deleteTask(t) has removed the first and left the second,
\* whose task exists.
C20_Witness ==
  \E c, d \in Calls :
    /\ call[c].committed /\ call[c].row.taskId # Null
    /\ call[c].row.taskId \notin DOMAIN tasks /\ call[c].row \notin sessions
    /\ call[d].committed /\ call[d].row \in sessions
    /\ call[d].row.taskId \in DOMAIN tasks
    /\ call[c].row.id < call[d].row.id


\* C21 (as claimed): every stored row of settings has workDuration > 0,
\* shortBreakDuration > 0, longBreakDuration > 0 and
\* sessionsUntilLongBreak >= 2, after any sequence of getSettings and
\* updateSettings calls.
C21_SettingsInRange ==
  \A i \in DOMAIN settings :
    /\ settings[i].workDuration > 0 /\ settings[i].shortBreakDuration > 0
    /\ settings[i].longBreakDuration > 0
    /\ settings[i].sessionsUntilLongBreak >= 2


\* ---------------------------------------------------- the tasks' interface
\* createTask, updateTask, deleteTask and one completeSession over the same
\* two task ids; the requests carry valid and invalid estimates, empty and
\* non-empty updates, ids with and without a row
TaskApiIds == {1, 2}
TaskApiEstimates == {1, 0, -3}
TaskApiPatches == {<<>>, [isCompleted |-> TRUE], [estimatedPomodoros |-> 0],
                   [title |-> "b", description |-> ""]}
TaskApiRequests ==
  {[taskId |-> 1, sessionType |-> "work", durationMinutes |-> 25]}

TasksNext ==
  \/ \E e \in TaskApiEstimates : CreateTask("a", "d", e)
  \/ \E t \in TaskApiIds, p \in TaskApiPatches : UpdateTask(t, p)
  \/ \E t \in TaskApiIds : DeleteTask(t)
  \/ \E r \in TaskApiRequests : BeginCall(1, r)
  \/ InsertSession(1)
  \/ Rollback(1)
  \/ IncrementTask(1)
  \/ CommitCall(1)

SpecTasks == Init /\ [][TasksNext]_vars

\* C22: every task has estimatedPomodoros >= 1 and completedPomodoros >= 0,
\* whatever createTask, updateTask and completeSession calls were made
C22_TaskCountsInRange ==
  \A t \in DOMAIN tasks : /\ tasks[t].estimatedPomodoros >= 1
                          /\ tasks[t].completedPomodoros >= 0


\* -- a session recorded on top of a session table of any shape: one
\* completeSession call, which stamps its row NOW()
AddRequests ==
  {[taskId |-> Undefined, sessionType |-> "work", durationMinutes |-> 25],
   [taskId |-> Undefined, sessionType |-> "short_break", durationMinutes |-> 5]}

AddNext ==
  \/ \E r \in AddRequests : BeginCall(1, r)
  \/ InsertSession(1)
  \/ IncrementTask(1)
  \/ CommitCall(1)

\* the session tables of at most MaxAddRows rows completed at the times of
\* FnTimes
AddTables == {RowsAt(f) : f \in UNION {Ascending(k) : k \in 0..MaxAddRows}}

InitAdd ==
  /\ clock = StartClock
  /\ tasks = <<>>
  /\ taskSeq = 0
  /\ sessions \in AddTables
  /\ sessionSeq = Cardinality(sessions)
  /\ call = [c \in Calls |-> IdleCall]
  /\ stat = [g \in StatCalls |-> IdleStat]
  /\ settings = SeededSettings
  /\ settingsSeq = 1
  /\ sget = [g \in SettingsCalls |-> IdleSettingsCall]
  /\ notes = <<>>
  /\ noteSeq = 0
  /\ reply = NoReply
  /\ timer = FreshTimer

SpecStatsAdd == InitAdd /\ [][AddNext]_vars

\* the sessions a step adds to the table
AddedSessions == sessions' \ sessions

\* C23: when a session is committed on a calendar day that already has a
\* session, the streak getStatistics computes stays what it was, the session
\* count rises by 1, the minutes by the session's duration, and, the day being
\* inside the 30-day window, the sum of the daily counts rises by 1 while the
\* number of days with sessions stays.
C23_SameDaySession ==
  [][\A x \in AddedSessions :
       (\E s \in sessions : DateOf(s.completedAt) = DateOf(x.completedAt)) =>
         /\ StreakLoop(StreakRows', DateOf(clock'), 1)
              = StreakLoop(StreakRows, DateOf(clock), 1)
         /\ CountOrZero(CountSessions') = CountOrZero(CountSessions) + 1
         /\ ValueOrZero(SumMinutes') = ValueOrZero(SumMinutes) + x.durationMinutes
         /\ InWindow(x, AvgWindowDays) =>
              /\ AvgDailyCount # SqlNull /\ AvgDailyCount' # SqlNull
              /\ AvgDailyCount'[1] = AvgDailyCount[1] + 1
              /\ AvgDailyCount'[2] = AvgDailyCount[2]]_vars

\* C23 witness: the call has committed a break of 5 minutes on a day that had
\* a session earlier in the day, with sessions on the day before and on an
\* older day of the window.
C23_Witness ==
  /\ call[1].committed /\ call[1].row \in sessions
  /\ call[1].row.durationMinutes = 5
  /\ \E s \in sessions : /\ s.id # call[1].row.id
                         /\ s.completedAt < call[1].row.completedAt
                         /\ DateOf(s.completedAt) = DateOf(call[1].row.completedAt)
  /\ \E s \in sessions : DateOf(s.completedAt) = DateOf(clock) - 1
  /\ \E s \in sessions : DateOf(s.completedAt) = DateOf(clock) - 3


\* -- the notes and their list, with time passing between the requests
ListIds == {1, 2}
ListNotePatches == {<<>>, [content |-> "y"]}

NoteListNext ==
  \/ Tick
  \/ noteSeq + 1 \in ListIds /\ CreateNote("n", "x", "text")
  \/ \E n \in ListIds, p \in ListNotePatches : UpdateNote(n, p)
  \/ \E n \in ListIds : DeleteNote(n)
  \/ ListNotes

SpecNoteList == Init /\ [][NoteListNext]_vars

\* -- the tasks and their list, with time passing between the requests
ListTaskPatches == {<<>>, [isCompleted |-> TRUE], [title |-> "b"]}

TaskListNext ==
  \/ Tick
  \/ CreateTask("a", "", 1)
  \/ \E t \in ListIds, p \in ListTaskPatches : UpdateTask(t, p)
  \/ \E t \in ListIds : DeleteTask(t)
  \/ ListTasks

SpecTaskList == Init /\ [][TaskListNext]_vars

\* C24: the notes listNotes returns are ordered by creation date, the latest
\* created first
C24_NotesByCreation ==
  reply.op = "listNotes" =>
    \A i, j \in DOMAIN reply.rows :
      i < j => reply.rows[i].createdAt >= reply.rows[j].createdAt

\* C25: the tasks listTasks returns are ordered by creation date, the latest
\* created first
C25_TasksByCreation ==
  reply.op = "listTasks" =>
    \A i, j \in DOMAIN reply.rows :
      i < j => reply.rows[i].createdAt >= reply.rows[j].createdAt


\* the persisted work sessions that name task t
WorkSessionsOf(t) ==
  {s \in sessions : s.sessionType = "work" /\ s.taskId = t}

\* C26: in every committed state each existing task's completedPomodoros is
\* the number of persisted work sessions that carry its id, whatever
\* createTask, updateTask, deleteTask and completeSession calls were made.
C26_CounterIsWorkSessionCount ==
  \A t \in DOMAIN tasks :
    tasks[t].completedPomodoros = Cardinality(WorkSessionsOf(t))

\* C26 witness: a renamed task with one work session and one break session
\* that both carry its id; its counter is 1.
C26_Witness ==
  /\ 1 \in DOMAIN tasks /\ tasks[1].title = "b"
  /\ tasks[1].completedPomodoros = 1
  /\ Cardinality(WorkSessionsOf(1)) = 1
  /\ \E s \in sessions : s.sessionType = "short_break" /\ s.taskId = 1

\* the steps of completeSession calls
SessionStep == call' # call

\* C27: no step of a completeSession call changes isCompleted, title,
\* description or estimatedPomodoros of a task; isCompleted changes only in
\* an updateTask call that supplies it; it stays false when the counter
\* reaches or passes the estimate; and the commit of a work session on a
\* completed task raises the task's counter by one.
C27_SessionsLeaveTaskFields ==
  [][ /\ SessionStep =>
           \A t \in DOMAIN tasks :
             /\ t \in DOMAIN tasks'
             /\ \A f \in TaskFields : tasks'[t][f] = tasks[t][f]
             /\ tasks'[t].completedPomodoros >= tasks'[t].estimatedPomodoros
                  => tasks'[t].isCompleted = tasks[t].isCompleted
      /\ \A t \in DOMAIN tasks \cap DOMAIN tasks' :
           tasks'[t].isCompleted # tasks[t].isCompleted =>
             /\ ~SessionStep
             /\ reply'.op = "updateTask" /\ reply'.req[1] = t
             /\ "isCompleted" \in DOMAIN reply'.req[2]
      /\ \A c \in Calls :
           /\ ~call[c].committed /\ call'[c].committed
           /\ call[c].req.sessionType = "work"
           /\ call[c].req.taskId \in DOMAIN tasks
           /\ tasks[call[c].req.taskId].isCompleted
           => tasks'[call[c].req.taskId].completedPomodoros
                = tasks[call[c].req.taskId].completedPomodoros + 1 ]_vars

\* C27 witness: the task, estimated at one pomodoro, was marked completed
\* after its first work session; a second work session on it has committed
\* and the counter is 2.
C27_Witness ==
  /\ 1 \in DOMAIN tasks /\ tasks[1].isCompleted
  /\ tasks[1].estimatedPomodoros = 1 /\ tasks[1].completedPomodoros = 2
  /\ \A c \in StoreCalls : call[c].committed /\ call[c].req.sessionType = "work"
  /\ reply.req = <<1, [isCompleted |-> TRUE]>>


\* the tables and their sequences
stored == <<tasks, taskSeq, sessions, sessionSeq, settings, settingsSeq,
            notes, noteSeq>>

\* the steps of updateTask calls among the steps of SpecTasks: the response
\* is a new one, or a task's fields changed with no task created or deleted
\* and no session committed
UpdateTaskStep ==
  \/ reply' # reply
  \/ tasks' # tasks /\ DOMAIN tasks' = DOMAIN tasks /\ call' = call

\* C28: an updateTask call that supplies none of title, description,
\* estimatedPomodoros, isCompleted fails with invalid argument, one whose id
\* has no task fails with not found, and both leave every table as it was;
\* every other call succeeds and changes nothing but the supplied fields and
\* updatedAt of the task with that id.
C28_UpdateTaskErrors ==
  [][ UpdateTaskStep =>
        LET id == reply'.req[1]
            patch == reply'.req[2]
        IN /\ reply'.op = "updateTask"
           /\ DOMAIN patch \cap TaskFields = {} =>
                reply'.err = "invalid_argument" /\ stored' = stored
           /\ DOMAIN patch \cap TaskFields # {} /\ id \notin DOMAIN tasks =>
                reply'.err = "not_found" /\ stored' = stored
           /\ DOMAIN patch \cap TaskFields # {} /\ id \in DOMAIN tasks =>
                /\ reply'.err = ""
                /\ DOMAIN tasks' = DOMAIN tasks
                /\ \A t \in DOMAIN tasks \ {id} : tasks'[t] = tasks[t]
                /\ \A f \in DOMAIN tasks[id] \ (DOMAIN patch \cup {"updatedAt"}) :
                     tasks'[id][f] = tasks[id][f]
                /\ <<taskSeq, sessions, sessionSeq, settings, settingsSeq,
                     notes, noteSeq>>'
                     = <<taskSeq, sessions, sessionSeq, settings, settingsSeq,
                         notes, noteSeq>> ]_vars

\* C28 witness: task 1, worked on once, was renamed and its description
\* cleared, task 2 does not exist, and the last call, an update with no
\* field, failed with invalid argument.
C28_Witness ==
  /\ DOMAIN tasks = {1} /\ taskSeq = 2
  /\ tasks[1].title = "b" /\ tasks[1].description = NullStr
  /\ tasks[1].completedPomodoros = 1
  /\ reply.req = <<2, <<>>>> /\ reply.err = "invalid_argument"


\* -- the Timer by itself: the outcome of a save is the environment's. The
\* component is mounted over a state kept in localStorage, two seconds before
\* the end of a countdown or at its end, and loads settings of one-minute
\* sessions and two-minute long breaks, or of two-minute work sessions and no
\* long break.
TimerSettings(w, n) ==
  [id |-> 1, workDuration |-> w, shortBreakDuration |-> 1,
   longBreakDuration |-> 2, sessionsUntilLongBreak |-> n,
   createdAt |-> StartClock, updatedAt |-> StartClock]

LoadedSettings == {TimerSettings(1, 2), TimerSettings(2, 0)}

TimerTasks == {Undefined, 1}

\* a new instance over the state t loaded from localStorage: the interval
\* effect of the render that holds the loaded state
Mounted(t) ==
  [t EXCEPT !.closure = IF t.timerState = "running" /\ t.timeLeft > 0
                        THEN Capture(t) ELSE NoClosure]

SavedTimers ==
  {Mounted([FreshTimer EXCEPT !.timerState = st, !.sessionType = ty,
                              !.timeLeft = tl, !.selectedTaskId = t,
                              !.completedWorkSessions = k,
                              !.totalDuration = SecondsPerMinute]) :
     st \in {"idle", "running", "paused"}, ty \in SessionTypes, tl \in {0, 2},
     t \in TimerTasks, k \in {0, 1}}

InitTimer ==
  /\ clock = StartClock
  /\ tasks = <<>>
  /\ taskSeq = 0
  /\ sessions = {}
  /\ sessionSeq = 0
  /\ call = [c \in Calls |-> IdleCall]
  /\ stat = [g \in StatCalls |-> IdleStat]
  /\ settings = SeededSettings
  /\ settingsSeq = 1
  /\ sget = [g \in SettingsCalls |-> IdleSettingsCall]
  /\ notes = <<>>
  /\ noteSeq = 0
  /\ reply = NoReply
  /\ timer \in SavedTimers

\* the user and the network act in the first second and in the last two of a
\* countdown, not in between
Attended == timer.timeLeft <= 2 \/ timer.timeLeft = timer.totalDuration

\* the countdowns are followed as long as a request can still be sent
SendsLeft == Len(timer.saves) + 1 \in SaveIds

TimerNext ==
  \/ \E s \in LoadedSettings : Attended /\ SettingsLoaded(s)
  \/ SendsLeft /\ CountDown
  \/ HandleTimerComplete
  \/ \E i \in SaveIds : Attended /\ SaveSucceeds(i)
  \/ \E i \in SaveIds : Attended /\ SaveFails(i)
  \/ \E s \in LoadedSettings \cup {NoSettings} : Attended /\ Remount(s)
  \/ Attended /\ handleStart
  \/ Attended /\ handlePause
  \/ Attended /\ handleStop
  \/ Attended /\ handleReset
  \/ \E v \in SessionTypes : Attended /\ handleSessionTypeChange(v)
  \/ \E v \in TimerTasks : Attended /\ SelectTask(v)

SpecTimerClient == InitTimer /\ [][TimerNext]_vars


\* the steps in which request i settles with the given state
SaveSettles(i, state) ==
  Unanswered(i) /\ timer'.saves[i].state = state

\* n is a multiple of m: n = j * m for some j, m not 0
IsMultiple(n, m) ==
  LET a == IF n < 0 THEN -n ELSE n
  IN m # 0 /\ \E j \in (-a)..a : j * m = n

\* C30 (as claimed): when the save of a work session succeeds the next type
\* is long_break exactly if the new count is a multiple of
\* sessionsUntilLongBreak, else short_break; when a save fails, sessionType
\* and completedWorkSessions keep their values and the timer is idle with
\* timeLeft = 0.
C30_AfterTheSave ==
  [][ \A i \in SaveIds :
        /\ SaveSettles(i, "resolved") /\ timer.saves[i].k.sessionType = "work" =>
             timer'.sessionType =
               IF IsMultiple(timer'.completedWorkSessions,
                             timer'.settings.sessionsUntilLongBreak)
               THEN "long_break" ELSE "short_break"
        /\ SaveSettles(i, "rejected") =>
             /\ timer'.sessionType = timer.sessionType
             /\ timer'.completedWorkSessions = timer.completedWorkSessions
             /\ timer'.timerState = "idle" /\ timer'.timeLeft = 0 ]_vars


\* -- the Timer with the server: request i is served by the completeSession
\* call i, whose outcome settles the save; the requests in flight reach the
\* server in any order. The selected task is one kept in localStorage; it may
\* or may not exist on the server.
ServeSave(i) ==
  /\ Unanswered(i)
  /\ Begins(i, SaveRequest(timer.saves[i].k))

RunningTimers == {t \in SavedTimers : t.timerState = "running" /\ t.timeLeft > 0}

InitTimerServer ==
  /\ clock = StartClock
  /\ tasks = <<>>
  /\ taskSeq = 0
  /\ sessions = {}
  /\ sessionSeq = 0
  /\ call = [c \in Calls |-> IdleCall]
  /\ stat = [g \in StatCalls |-> IdleStat]
  /\ settings = SeededSettings
  /\ settingsSeq = 1
  /\ sget = [g \in SettingsCalls |-> IdleSettingsCall]
  /\ notes = <<>>
  /\ noteSeq = 0
  /\ reply = NoReply
  /\ timer \in RunningTimers

TimerServerNext ==
  \/ \E s \in LoadedSettings : Attended /\ SettingsLoaded(s)
  \/ SendsLeft /\ CountDown
  \/ HandleTimerComplete
  \/ \E i \in SaveIds : Attended /\ ServeSave(i)
  \/ \E c \in Calls : Attended /\ InsertSession(c)
  \/ \E c \in Calls : Attended /\ Rollback(c)
  \/ \E c \in Calls : Attended /\ IncrementTask(c)
  \/ \E c \in Calls : Attended /\ CommitCall(c)
  \/ \E i \in SaveIds : Attended /\ SaveAnswered(i)
  \/ \E s \in LoadedSettings \cup {NoSettings} : Attended /\ Remount(s)
  \/ Attended /\ handleStart
  \/ Attended /\ handleStop
  \/ taskSeq + 1 \in StatTasks /\ CreateTask("a", UndefinedStr, 1)

SpecTimer == InitTimerServer /\ [][TimerServerNext]_vars

\* C29: the end of a countdown leaves the timer idle, and when the server
\* has committed the session and its answer settles the save, the timer has
\* advanced: after a work session completedWorkSessions is one more and the
\* type a break, after a break the type is work, with timeLeft the configured
\* duration of the new type.
C29_AdvancesAfterCommit ==
  [][ \A i \in SaveIds :
        /\ i \notin DOMAIN timer.saves /\ i \in DOMAIN timer'.saves =>
             timer'.timerState = "idle"
        /\ /\ Unanswered(i) /\ timer'.saves[i].state \in {"resolved", "rejected"}
           /\ call[i].committed
           => LET k == timer.saves[i].k IN
                /\ k.sessionType = "work" =>
                     /\ timer'.completedWorkSessions = k.completedWorkSessions + 1
                     /\ timer'.sessionType \in BreakTypes
                /\ k.sessionType # "work" => timer'.sessionType = "work"
                /\ timer'.timeLeft =
                     getDurationForSessionType(timer'.sessionType, k.settings)
                       * SecondsPerMinute ]_vars

====
